---- MODULE Spec2Model ----
(***************************************************************************)
(* Verification model of the profile analysis backend                      *)
(* (teeppp/chat_reflection_loop, src/backend).                             *)
(*                                                                         *)
(* Confidences are floats in the source; they are modelled as integers in  *)
(* tenths (0.6 is 6, 1.5 is 15, -0.2 is -2).  Timestamps and free-text     *)
(* context excerpts are not modelled.                                      *)
(*                                                                         *)
(* Specifications:                                                         *)
(*   SpecRepo     UserProfileRepository.add_pattern / add_label            *)
(*   Spec         ProfileAgent.analyze_reflection / update_profile over    *)
(*                the repository and the per-user analysis cache           *)
(*   SpecFaulty   the same operations with contents that are not a str and *)
(*                exceptions inside the engine call                        *)
(*   SpecEngine   PatternAnalysisEngine.analyze_pattern (extraction,       *)
(*                vectorisation, clustering)                               *)
(*   SpecCluster  PatternAnalysisEngine._cluster_labels                    *)
(*   SpecAnalyzer PatternAnalyzer.analyze                                  *)
(*   SpecProfile  UserProfileRepository.get_profile /                      *)
(*                update_preferred_role                                    *)
(*   SpecHit      analyze_reflection calls of two users sharing the cache  *)
(*   SpecConcurrent  two concurrent analyze_reflection calls               *)
(*   SpecMerge    ProfileAgent._update_profile_with_analysis               *)
(*   SpecGrow     the four mutators of the repository in any order         *)
(*   SpecBatch    _update_profile_with_analysis with a failing repository  *)
(*                call                                                     *)
(*   SpecLoop     a get_profile and repository merges of other requests   *)
(*                for one user, scheduled by the one event loop            *)
(*   SpecApi      the authentication middleware of api.py                  *)
(*   SpecChat     the chat session endpoints of api.py                     *)
(***************************************************************************)
EXTENDS Integers, Sequences, FiniteSets, TLC

VARIABLES
    store,          \* user_profiles collection: user -> document or NoDoc
    patternHistory, \* pattern_history collection: user -> number of entries
    cache,          \* ProfileAgent._last_analysis: user -> entry or NoEntry
    lastOp,         \* the operation that produced the current state
    merged,         \* per user and label text: merges seen since absent
    calls,          \* per user: the last analyze_reflection call and its outcome
    engineIn,       \* SpecEngine: the input drawn for analyze_pattern
    engineOut,      \* SpecEngine: the result of analyze_pattern
    analyzerIn,     \* SpecAnalyzer: the input drawn for analyze
    analyzerOut,    \* SpecAnalyzer: the result of analyze
    clusterIn,      \* SpecCluster: the vectorized labels drawn
    clusterOut,     \* SpecCluster: the result of _cluster_labels
    tasks,          \* SpecConcurrent: the analyze_reflection calls in flight
    httpIn,         \* SpecApi: the HTTP request drawn
    httpOut,        \* SpecApi: the response of the middleware
    chatHistories   \* chat_histories collection: session id -> document

vars == <<store, patternHistory, cache, lastOp, merged, calls,
          engineIn, engineOut, analyzerIn, analyzerOut, clusterIn, clusterOut,
          tasks, httpIn, httpOut, chatHistories>>

----------------------------------------------------------------------------
(* Bounds of the model *)

MaxHistory == 2
MaxMerges == 2

Users == {"u1", "u2"}

NoDoc == [exists |-> FALSE]
SessionIds == {"s1", "s2"}
NoSessions == [s \in SessionIds |-> NoDoc]
NoEntry == [present |-> FALSE]
NoOp == [op |-> "none"]
NoCall == [op |-> "none"]
NoTasks == <<>>

IsOp(op, name) == op # NoOp /\ op.op = name

Min(S) == CHOOSE x \in S : \A y \in S : x <= y
Max2(a, b) == IF a >= b THEN a ELSE b

----------------------------------------------------------------------------
(* Data model: agents/models.py, repositories/user_profile_repository.py *)

\* Field(ge=0.0, le=1.0) on Pattern.confidence / DynamicLabel.confidence /
\* LabelResponse.confidence / PatternResult.confidence
ConfidenceValid(c) == c >= 0 /\ c <= 10

\* DynamicLabel.occurrence_count default
DefaultOccurrenceCount == 1

\* DynamicLabel(text, confidence, occurrence_count): construction validates
DynamicLabelValid(l) == ConfidenceValid(l.confidence) /\ l.occurrence_count >= 1

\* UserProfileRepository._to_dict applied to a DynamicLabel: the JSON dump
\* carries the label's own fields
_to_dict(label) ==
    [text |-> label.text,
     confidence |-> label.confidence,
     occurrence_count |-> label.occurrence_count]

\* personalized_instructions: Optional[str] = None
NoInstructions == "None"

\* UserProfile(user_id, patterns, labels, clusters, base_instructions=[], ...)
\* as a stored document
UserProfile(patterns, labels, clusters) ==
    [exists |-> TRUE, patterns |-> patterns, labels |-> labels,
     clusters |-> clusters, categories |-> <<>>,
     base_instructions |-> <<>>,
     personalized_instructions |-> NoInstructions]

StoredPatterns(doc) == IF doc.exists THEN doc.patterns ELSE <<>>
StoredLabels(doc) == IF doc.exists THEN doc.labels ELSE <<>>
StoredClusters(doc) == IF doc.exists THEN doc.clusters ELSE <<>>

\* first index of a stored pattern whose name is `name`, 0 when none
PatternIndex(patterns, name) ==
    LET S == {i \in DOMAIN patterns : patterns[i].pattern = name}
    IN IF S = {} THEN 0 ELSE Min(S)

\* first index of a stored label whose text is `text`, 0 when none
LabelIndex(labels, text) ==
    LET S == {i \in DOMAIN labels : labels[i].text = text}
    IN IF S = {} THEN 0 ELSE Min(S)

----------------------------------------------------------------------------
(* UserProfileRepository: the transaction bodies.  Each returns            *)
(* [raised, doc]: whether the body raised and the document it leaves.      *)

\* the dict written for a pattern (pattern_dict, and the Pattern dump of the
\* new-profile branch): name, category, confidence, detection_method
PatternDict(pattern) ==
    [pattern |-> pattern.pattern,
     category |-> pattern.category,
     confidence |-> pattern.confidence,
     detection_method |-> "analysis"]

\* add_pattern without the search for an existing name
AddPatternTxn_AlwaysAppend(doc, pattern) ==
    IF ~doc.exists
    THEN IF ConfidenceValid(pattern.confidence)
         THEN [raised |-> FALSE,
               doc |-> UserProfile(<<PatternDict(pattern)>>, <<>>, <<>>)]
         ELSE [raised |-> TRUE, doc |-> doc]
    ELSE [raised |-> FALSE,
          doc |-> [doc EXCEPT !.patterns = Append(@, PatternDict(pattern))]]

AddPatternTxn(doc, pattern) ==
    IF ~doc.exists
    THEN \* UserProfile(patterns=[{...}]) validates the entry as a Pattern
         IF ConfidenceValid(pattern.confidence)
         THEN [raised |-> FALSE,
               doc |-> UserProfile(<<PatternDict(pattern)>>, <<>>, <<>>)]
         ELSE [raised |-> TRUE, doc |-> doc]
    ELSE LET patterns == doc.patterns
             i == PatternIndex(patterns, pattern.pattern)
             updated == IF i # 0
                        THEN [patterns EXCEPT ![i] = PatternDict(pattern)]
                        ELSE Append(patterns, PatternDict(pattern))
         IN [raised |-> FALSE, doc |-> [doc EXCEPT !.patterns = updated]]

\* a label transaction that writes a list holding only the incoming label
AddLabelTxn_ReplacesList(doc, label) ==
    IF ~doc.exists
    THEN [raised |-> FALSE, doc |-> UserProfile(<<>>, <<_to_dict(label)>>, <<>>)]
    ELSE [raised |-> FALSE, doc |-> [doc EXCEPT !.labels = <<_to_dict(label)>>]]

\* update_in_transaction of add_label: an existing entry of the same text is
\* updated in place and then overwritten by the dump of the incoming label
AddLabelTxn(doc, label) ==
    IF ~doc.exists
    THEN [raised |-> FALSE, doc |-> UserProfile(<<>>, <<_to_dict(label)>>, <<>>)]
    ELSE LET labels == doc.labels
             i == LabelIndex(labels, label.text)
             \* l['occurrence_count'] += 1; l['confidence'] = max(...)
             inPlace == [labels EXCEPT
                            ![i].occurrence_count = @ + 1,
                            ![i].confidence = Max2(@, label.confidence)]
             \* labels[i] = self._to_dict(label)
             updated == IF i # 0
                        THEN [inPlace EXCEPT ![i] = _to_dict(label)]
                        ELSE Append(labels, _to_dict(label))
         IN [raised |-> FALSE, doc |-> [doc EXCEPT !.labels = updated]]

----------------------------------------------------------------------------
(* UserProfileRepository: the public methods.  `fault` is the failure the  *)
(* document store injects into the call; each returns the state the call   *)
(* leaves and whether it raised to its caller.                             *)

PatternFaults == {"none", "txn", "history"}
LabelFaults == {"none", "txn"}

add_pattern(st, hist, user_id, pattern, fault) ==
    LET txn == AddPatternTxn(st[user_id], pattern)
    IN IF fault = "txn" \/ txn.raised
       THEN [raised |-> TRUE, store |-> st, history |-> hist]
       ELSE \* the transaction is committed before pattern_history is written
            [raised |-> (fault = "history"),
             store |-> [st EXCEPT ![user_id] = txn.doc],
             history |-> IF fault = "history" THEN hist
                         ELSE [hist EXCEPT ![user_id] = @ + 1]]

add_label(st, user_id, label, fault) ==
    LET txn == AddLabelTxn(st[user_id], label)
    IN IF fault = "txn" \/ txn.raised
       THEN [raised |-> TRUE, store |-> st]
       ELSE [raised |-> FALSE, store |-> [st EXCEPT ![user_id] = txn.doc]]

\* a cluster transaction that writes a list holding only the incoming cluster
UpdateClusterTxn_ReplacesList(doc, cluster) ==
    IF ~doc.exists
    THEN [raised |-> FALSE, doc |-> UserProfile(<<>>, <<>>, <<cluster>>)]
    ELSE [raised |-> FALSE, doc |-> [doc EXCEPT !.clusters = <<cluster>>]]

UpdateClusterTxn(doc, cluster) ==
    IF ~doc.exists
    THEN [raised |-> FALSE, doc |-> UserProfile(<<>>, <<>>, <<cluster>>)]
    ELSE LET clusters == doc.clusters
             S == {i \in DOMAIN clusters :
                      clusters[i].cluster_id = cluster.cluster_id}
             updated == IF S # {}
                        THEN [clusters EXCEPT ![Min(S)] = cluster]
                        ELSE Append(clusters, cluster)
         IN [raised |-> FALSE, doc |-> [doc EXCEPT !.clusters = updated]]

update_cluster(st, user_id, cluster, fault) ==
    LET txn == UpdateClusterTxn(st[user_id], cluster)
    IN IF fault = "txn" \/ txn.raised
       THEN [raised |-> TRUE, store |-> st]
       ELSE [raised |-> FALSE, store |-> [st EXCEPT ![user_id] = txn.doc]]

AddCategoryTxn(doc, category) ==
    IF ~doc.exists
    THEN [raised |-> FALSE,
          doc |-> [UserProfile(<<>>, <<>>, <<>>) EXCEPT
                      !.categories = <<category>>]]
    ELSE LET categories == doc.categories
             S == {i \in DOMAIN categories :
                      categories[i].name = category.name}
             updated == IF S # {}
                        THEN [categories EXCEPT ![Min(S)] = category]
                        ELSE Append(categories, category)
         IN [raised |-> FALSE, doc |-> [doc EXCEPT !.categories = updated]]

add_category(st, user_id, category, fault) ==
    LET txn == AddCategoryTxn(st[user_id], category)
    IN IF fault = "txn" \/ txn.raised
       THEN [raised |-> TRUE, store |-> st]
       ELSE [raised |-> FALSE, store |-> [st EXCEPT ![user_id] = txn.doc]]

\* update_instructions / update_personalized_instructions: document.update
\* is the synchronous client call; it fails on a missing document, else it
\* writes the field, and the await applied to its return value then raises,
\* so the method raises on every path
update_instructions(st, user_id, instructions, fault) ==
    IF fault = "txn" \/ ~st[user_id].exists
    THEN [raised |-> TRUE, store |-> st]
    ELSE [raised |-> TRUE,
          store |-> [st EXCEPT ![user_id].base_instructions = instructions]]

update_personalized_instructions(st, user_id, instructions, fault) ==
    IF fault = "txn" \/ ~st[user_id].exists
    THEN [raised |-> TRUE, store |-> st]
    ELSE [raised |-> TRUE,
          store |-> [st EXCEPT
                        ![user_id].personalized_instructions = instructions]]

\* get_profile returns None
NoProfile == [exists |-> FALSE]

GetFaults == {"none", "get", "set"}

\* the UserProfile that get_profile validates from a stored document: the
\* normalized_data dict carries these fields and no other
NormalizedProfile(doc) ==
    [exists |-> TRUE, patterns |-> doc.patterns, labels |-> doc.labels,
     clusters |-> doc.clusters, categories |-> doc.categories,
     base_instructions |-> doc.base_instructions,
     personalized_instructions |-> doc.personalized_instructions]

\* UserProfile.model_validate: Pattern and DynamicLabel constrain confidence
UserProfileValid(doc) ==
    /\ \A i \in DOMAIN doc.patterns :
           ConfidenceValid(doc.patterns[i].confidence)
    /\ \A i \in DOMAIN doc.labels : DynamicLabelValid(doc.labels[i])

\* a get_profile that returns the new profile of an absent user without
\* writing it
get_profile_NoCreate(st, user_id, fault) ==
    IF fault = "get" THEN [profile |-> NoProfile, store |-> st]
    ELSE IF ~st[user_id].exists
    THEN IF fault = "set" THEN [profile |-> NoProfile, store |-> st]
         ELSE [profile |-> UserProfile(<<>>, <<>>, <<>>), store |-> st]
    ELSE IF UserProfileValid(st[user_id])
    THEN [profile |-> NormalizedProfile(st[user_id]), store |-> st]
    ELSE [profile |-> NoProfile, store |-> st]

\* get_profile: the document is read and, when absent, a new empty profile
\* is written and returned; a stored document is normalized and validated;
\* every exception is logged and gives None.  The read and the write are
\* synchronous client calls with no suspension point between them.
get_profile(st, user_id, fault) ==
    IF fault = "get" THEN [profile |-> NoProfile, store |-> st]
    ELSE IF ~st[user_id].exists
    THEN IF fault = "set" THEN [profile |-> NoProfile, store |-> st]
         ELSE [profile |-> UserProfile(<<>>, <<>>, <<>>),
               store |-> [st EXCEPT ![user_id] =
                             UserProfile(<<>>, <<>>, <<>>)]]
    ELSE IF UserProfileValid(st[user_id])
    THEN [profile |-> NormalizedProfile(st[user_id]), store |-> st]
    ELSE [profile |-> NoProfile, store |-> st]

\* the fixed set of roles
ValidRoles == {"code", "architect"}

NoRole == "None"

\* the preferred_role a document stores
StoredRole(doc) ==
    IF doc.exists /\ "preferred_role" \in DOMAIN doc
    THEN doc.preferred_role ELSE NoRole

\* update_preferred_role: a role outside the valid set is rejected and
\* nothing is written; a valid role is written to the user's document
update_preferred_role(st, user_id, role) ==
    IF role \notin ValidRoles
    THEN [raised |-> TRUE, store |-> st]
    ELSE [raised |-> FALSE,
          store |-> [st EXCEPT ![user_id] =
                        [preferred_role |-> role] @@
                        (IF st[user_id].exists THEN st[user_id]
                         ELSE UserProfile(<<>>, <<>>, <<>>))]]

----------------------------------------------------------------------------
(* Inputs of the repository operations *)

PatternNames == {"P", "Q"}
PatternCategories == {"C"}
\* UserPattern.confidence is an unconstrained float
UserPatternConfidences == {4, 9, 15}
UserPatterns ==
    [pattern : PatternNames, category : PatternCategories,
     confidence : UserPatternConfidences]

LabelTexts == {"#a", "#b"}
LabelConfidences == {5, 8}
\* labels are built as DynamicLabel(text, confidence, context) and carry the
\* default occurrence_count
LabelCounts == {DefaultOccurrenceCount}
DynamicLabels ==
    {l \in [text : LabelTexts, confidence : LabelConfidences,
            occurrence_count : LabelCounts] : DynamicLabelValid(l)}

StoredPatternNames(doc) ==
    IF doc.exists THEN {doc.patterns[i].pattern : i \in DOMAIN doc.patterns}
    ELSE {}

StoredLabelTexts(doc) ==
    IF doc.exists THEN {doc.labels[i].text : i \in DOMAIN doc.labels} ELSE {}

NoMerge == [n |-> 0, maxc |-> 0]

\* bookkeeping of the merges of one label text into one profile: n counts
\* the merges since the text was absent, maxc is their largest confidence
MergedAfter(m, doc, label) ==
    IF label.text \in StoredLabelTexts(doc)
    THEN [n |-> m.n + 1, maxc |-> Max2(m.maxc, label.confidence)]
    ELSE [n |-> 1, maxc |-> label.confidence]

----------------------------------------------------------------------------
(* SpecRepo: the repository operations called directly *)

EngineIdle == [kind |-> "idle"]

InitCommon ==
    /\ store = [u \in Users |-> NoDoc]
    /\ patternHistory = [u \in Users |-> 0]
    /\ httpIn = EngineIdle
    /\ httpOut = EngineIdle
    /\ chatHistories = NoSessions
    /\ cache = [u \in Users |-> NoEntry]
    /\ lastOp = NoOp
    /\ merged = [u \in Users |-> [t \in LabelTexts |-> NoMerge]]
    /\ calls = [u \in Users |-> NoCall]
    /\ tasks = NoTasks
    /\ engineIn = EngineIdle
    /\ engineOut = EngineIdle
    /\ analyzerIn = EngineIdle
    /\ analyzerOut = EngineIdle
    /\ clusterIn = <<>>
    /\ clusterOut = EngineIdle

InitRepo == InitCommon

\* the repository is exercised on one profile document
RepoUsers == {"u1"}

RepoAddPattern ==
    \E u \in RepoUsers, p \in UserPatterns, f \in PatternFaults :
        LET r == add_pattern(store, patternHistory, u, p, f)
        IN /\ patternHistory[u] < MaxHistory
           /\ store' = r.store
           /\ patternHistory' = r.history
           /\ lastOp' = [op |-> "add_pattern", user |-> u, arg |-> p,
                         raised |-> r.raised,
                         committed |-> (r.store # store \/ ~r.raised),
                         existed |-> p.pattern \in StoredPatternNames(store[u])]
           /\ UNCHANGED <<cache, merged, calls,
                          engineIn, engineOut, analyzerIn, analyzerOut,
                          clusterIn, clusterOut, tasks, httpIn, httpOut,
                   chatHistories>>

RepoAddLabel ==
    \E u \in RepoUsers, l \in DynamicLabels, f \in LabelFaults :
        LET r == add_label(store, u, l, f)
        IN /\ merged[u][l.text].n < MaxMerges
           /\ store' = r.store
           /\ merged' = IF r.raised THEN merged
                        ELSE [merged EXCEPT ![u][l.text] =
                                 MergedAfter(@, store[u], l)]
           /\ lastOp' = [op |-> "add_label", user |-> u,
                         raised |-> r.raised,
                         existed |-> l.text \in StoredLabelTexts(store[u])]
           /\ UNCHANGED <<patternHistory, cache, calls,
                          engineIn, engineOut, analyzerIn, analyzerOut,
                          clusterIn, clusterOut, tasks, httpIn, httpOut,
                   chatHistories>>

NextRepo == RepoAddPattern \/ RepoAddLabel

SpecRepo == InitRepo /\ [][NextRepo]_vars

----------------------------------------------------------------------------
(* SpecProfile: get_profile and update_preferred_role on profiles that     *)
(* add_pattern also writes                                                 *)

Roles == ValidRoles \cup {"not_a_role"}

ProfilePatterns ==
    {p \in UserPatterns : p.pattern = "P" /\ p.confidence \in {9, 15}}

InitProfile == InitCommon

GetProfile ==
    \E u \in Users, fault \in GetFaults :
        \E r \in {get_profile(store, u, fault)} :
            /\ store' = r.store
            /\ lastOp' = [op |-> "get_profile", user |-> u, fault |-> fault,
                          profile |-> r.profile]
            /\ UNCHANGED <<patternHistory, cache, merged, calls, engineIn,
                           engineOut, analyzerIn, analyzerOut, clusterIn,
                           clusterOut, tasks, httpIn, httpOut,
                   chatHistories>>

UpdatePreferredRole ==
    \E u \in Users, role \in Roles :
        \E r \in {update_preferred_role(store, u, role)} :
            /\ store' = r.store
            /\ lastOp' = [op |-> "update_preferred_role", user |-> u,
                          role |-> role, raised |-> r.raised]
            /\ UNCHANGED <<patternHistory, cache, merged, calls, engineIn,
                           engineOut, analyzerIn, analyzerOut, clusterIn,
                           clusterOut, tasks, httpIn, httpOut,
                   chatHistories>>

ProfileAddPattern ==
    \E u \in Users, pattern \in ProfilePatterns :
        \E r \in {add_pattern(store, patternHistory, u, pattern, "none")} :
            /\ patternHistory[u] < MaxHistory
            /\ store' = r.store
            /\ patternHistory' = r.history
            /\ lastOp' = [op |-> "add_pattern", user |-> u]
            /\ UNCHANGED <<cache, merged, calls, engineIn, engineOut,
                           analyzerIn, analyzerOut, clusterIn, clusterOut,
                           tasks, httpIn, httpOut,
                   chatHistories>>

NextProfile == GetProfile \/ UpdatePreferredRole \/ ProfileAddPattern

SpecProfile == InitProfile /\ [][NextProfile]_vars

----------------------------------------------------------------------------
(* PatternAnalysisEngine._cluster_labels.  The input is the ordered dict   *)
(* text -> VectorizedLabel, modelled as a sequence of entries              *)
(* [text, vector] with distinct texts; a vector is a one-element list of   *)
(* tenths.                                                                 *)

Abs(x) == IF x < 0 THEN -x ELSE x

RECURSIVE SortedSeq(_)
\* the elements of a set of integers in increasing order
SortedSeq(S) ==
    IF S = {} THEN <<>> ELSE <<Min(S)>> \o SortedSeq(S \ {Min(S)})

RECURSIVE SumSeq(_)
SumSeq(s) == IF s = <<>> THEN 0 ELSE Head(s) + SumSeq(Tail(s))

\* DBSCAN(eps=0.5, min_samples=1, metric='euclidean')
DBSCAN_eps == 5
DBSCAN_min_samples == 1

\* eps-neighbourhood of point i (a point is its own neighbour)
Neighbours(vectors, i) ==
    {j \in DOMAIN vectors : Abs(vectors[i][1] - vectors[j][1]) <= DBSCAN_eps}

IsCore(vectors, i) == Cardinality(Neighbours(vectors, i)) >= DBSCAN_min_samples

RECURSIVE Expand(_, _, _)
\* the points density-reachable from S in at most k expansions through
\* core points
Expand(vectors, S, k) ==
    IF k = 0 THEN S
    ELSE Expand(vectors,
                S \cup UNION {Neighbours(vectors, j) :
                                 j \in {c \in S : IsCore(vectors, c)}},
                k - 1)

ClusterOf(vectors, i) == Expand(vectors, {i}, Len(vectors))

\* clustering.labels_: clusters are numbered from 0 in the order in which
\* their first point is met; with min_samples = 1 every point is a core
\* point and none is noise
DBSCAN_labels(vectors) ==
    LET first(i) == Min(ClusterOf(vectors, i))
        firsts == {first(j) : j \in DOMAIN vectors}
    IN [i \in DOMAIN vectors |->
           Cardinality({f \in firsts : f < first(i)})]

\* LabelCluster built for one group; center and radius are kept exact as
\* center_sum / size and radius_n / size
LabelCluster(cluster_id, label_texts, cluster_vectors) ==
    LET size == Len(cluster_vectors)
        center_sum == SumSeq(cluster_vectors)
        devs == {Abs(center_sum - size * cluster_vectors[i]) :
                    i \in DOMAIN cluster_vectors}
    IN [cluster_id |-> cluster_id,
        labels |-> label_texts,
        strength |-> 10,
        center_sum |-> center_sum,
        size |-> size,
        radius_n |-> IF size > 1
                     THEN CHOOSE d \in devs : \A e \in devs : e <= d
                     ELSE 1]

\* threshold of one label below which clustering is attempted
_cluster_labels_NoMinimum(vectorized_labels) ==
    IF Len(vectorized_labels) < 1 THEN <<>>
    ELSE LET vectors == [i \in DOMAIN vectorized_labels |->
                             vectorized_labels[i].vector]
             labels_ == DBSCAN_labels(vectors)
             ids == SortedSeq({labels_[i] : i \in DOMAIN vectors})
             members(k) == SortedSeq({i \in DOMAIN vectors : labels_[i] = k})
         IN [n \in DOMAIN ids |->
                LET m == members(ids[n])
                IN LabelCluster(ids[n],
                       [x \in DOMAIN m |-> vectorized_labels[m[x]].text],
                       [x \in DOMAIN m |-> vectorized_labels[m[x]].vector[1]])]

\* threshold of three labels: two labels are not clustered
_cluster_labels_MinimumThree(vectorized_labels) ==
    IF Len(vectorized_labels) < 3 THEN <<>>
    ELSE _cluster_labels_NoMinimum(vectorized_labels)

_cluster_labels(vectorized_labels) ==
    IF Len(vectorized_labels) < 2 THEN <<>>
    ELSE LET vectors == [i \in DOMAIN vectorized_labels |->
                             vectorized_labels[i].vector]
             labels_ == DBSCAN_labels(vectors)
             \* clusters[str(label_cluster)].append(label_text), in key order
             ids == SortedSeq({labels_[i] : i \in DOMAIN vectors})
             members(k) == SortedSeq({i \in DOMAIN vectors : labels_[i] = k})
         IN [n \in DOMAIN ids |->
                LET m == members(ids[n])
                IN LabelCluster(ids[n],
                       [x \in DOMAIN m |-> vectorized_labels[m[x]].text],
                       [x \in DOMAIN m |-> vectorized_labels[m[x]].vector[1]])]

----------------------------------------------------------------------------
(* SpecCluster: _cluster_labels applied to drawn inputs *)

MaxPoints == 3

ClusterTexts == {"#a", "#b", "#c", "#d"}
VectorValues == {0, 5, 9, 20}

VectorizedLabels ==
    [text : ClusterTexts, vector : {<<x>> : x \in VectorValues}]

\* ordered dicts: sequences of entries whose keys are distinct
ClusterInputs ==
    UNION {{s \in [1..n -> VectorizedLabels] :
               \A i, j \in 1..n : s[i].text = s[j].text => i = j} :
           n \in 0..MaxPoints}

InitCluster ==
    /\ store = [u \in Users |-> NoDoc]
    /\ patternHistory = [u \in Users |-> 0]
    /\ httpIn = EngineIdle
    /\ httpOut = EngineIdle
    /\ chatHistories = NoSessions
    /\ cache = [u \in Users |-> NoEntry]
    /\ lastOp = NoOp
    /\ merged = [u \in Users |-> [t \in LabelTexts |-> NoMerge]]
    /\ calls = [u \in Users |-> NoCall]
    /\ tasks = NoTasks
    /\ engineIn = EngineIdle
    /\ engineOut = EngineIdle
    /\ analyzerIn = EngineIdle
    /\ analyzerOut = EngineIdle
    /\ clusterIn \in ClusterInputs
    /\ clusterOut = EngineIdle

ClusterLabels ==
    /\ clusterOut = EngineIdle
    /\ clusterOut' = [kind |-> "done",
                      clusters |-> _cluster_labels(clusterIn)]
    /\ UNCHANGED <<store, patternHistory, cache, lastOp, merged,
                   calls, engineIn, engineOut, analyzerIn, analyzerOut,
                   clusterIn, tasks, httpIn, httpOut,
                   chatHistories>>

NextCluster == ClusterLabels

SpecCluster == InitCluster /\ [][NextCluster]_vars

----------------------------------------------------------------------------
(* PatternAnalysisEngine: label extraction, vectorisation, assembly.       *)
(* The text-generation agent is the input `gen`: either its call raised    *)
(* ([kind |-> "error"]) or it produced data, a list of raw label items     *)
(* [text, confidence, occurrence_count] whose values it chose freely.      *)

GenError == [kind |-> "error"]

\* DynamicPatternEngine(min_confidence=0.6, max_labels_per_pattern=10), the
\* configuration ProfileAgent builds its engine with
AgentMinConfidence == 6
AgentMaxLabels == 10
AgentEngineConfig ==
    [min_confidence |-> AgentMinConfidence,
     max_labels_per_pattern |-> AgentMaxLabels]

\* LabelResponse: Field(ge=0.0, le=1.0) on confidence
LabelResponseValid(item) == ConfidenceValid(item.confidence)

\* DynamicLabelAnalysis.model_validate(result.data)
DynamicLabelAnalysisValid(items) ==
    \A i \in DOMAIN items : LabelResponseValid(items[i])

DynamicLabel(text, confidence, occurrence_count) ==
    [text |-> text, confidence |-> confidence,
     occurrence_count |-> occurrence_count]

\* validation that accepts any confidence
_extract_labels_with_llm_Unvalidated(gen) ==
    IF gen.kind = "error" THEN <<>>
    ELSE [i \in DOMAIN gen.labels |->
             DynamicLabel(gen.labels[i].text, gen.labels[i].confidence,
                          gen.labels[i].occurrence_count)]

\* any exception (the call, the validation of the response, the
\* construction of a DynamicLabel) makes the whole extraction return []
_extract_labels_with_llm(gen) ==
    IF gen.kind = "error" THEN <<>>
    ELSE IF ~DynamicLabelAnalysisValid(gen.labels) THEN <<>>
    ELSE LET labels == [i \in DOMAIN gen.labels |->
                           DynamicLabel(gen.labels[i].text,
                                        gen.labels[i].confidence,
                                        gen.labels[i].occurrence_count)]
         IN IF \E i \in DOMAIN labels : ~DynamicLabelValid(labels[i])
            THEN <<>>
            ELSE labels

\* an extraction that keeps every label that passes the filter
_extract_labels_Untruncated(gen, config) ==
    LET labels == _extract_labels_with_llm(gen)
        keep(label) == label.confidence >= config.min_confidence
    IN SelectSeq(labels, keep)

\* filtered_labels = [label for label in labels
\*                    if label.confidence >= self.config.min_confidence]
\* return filtered_labels[:self.config.max_labels_per_pattern]
_extract_labels(gen, config) ==
    LET labels == _extract_labels_with_llm(gen)
        keep(label) == label.confidence >= config.min_confidence
        filtered_labels == SelectSeq(labels, keep)
    IN SubSeq(filtered_labels, 1,
              IF Len(filtered_labels) < config.max_labels_per_pattern
              THEN Len(filtered_labels)
              ELSE config.max_labels_per_pattern)

\* vectorized[label.text] = VectorizedLabel(label, np.random.rand(1)): an
\* ordered dict, keys in order of first insertion, a repeated text keeps its
\* place and takes the later vector.  rand[i] is the draw for the i-th label.
_vectorize_labels(labels, rand) ==
    LET firsts == {i \in DOMAIN labels :
                      \A j \in DOMAIN labels :
                          labels[j].text = labels[i].text => j >= i}
        order == SortedSeq(firsts)
        last(t) == CHOOSE i \in DOMAIN labels :
                       /\ labels[i].text = t
                       /\ \A j \in DOMAIN labels :
                              labels[j].text = t => j <= i
    IN [k \in DOMAIN order |->
           [text |-> labels[order[k]].text,
            vector |-> <<rand[last(labels[order[k]].text)]>>]]

\* Pattern(pattern=label.text, category="dynamic", ...)
DynamicPattern(label) ==
    [pattern |-> label.text,
     category |-> "dynamic",
     confidence |-> label.confidence,
     detection_method |-> "dynamic_analysis"]

PatternAnalysisResult(patterns, labels, clusters, error_occurred, message) ==
    [patterns |-> patterns, labels |-> labels, clusters |-> clusters,
     error_occurred |-> error_occurred, error_message |-> message]

\* an exception met in the try block of analyze_pattern outside the
\* handlers of its helpers (the slice or the PatternContext of a content
\* that is not a str, an allocation that fails)
EngineFaults == {"none", "raise"}

\* a call that ended with an exception raised to its caller
RaisedToCaller(message) == [raised |-> TRUE, error_message |-> message]
Raised(result) == "raised" \in DOMAIN result

\* the try block of analyze_pattern
analyze_pattern_try(gen, rand, config) ==
    LET labels == _extract_labels(gen, config)
        vectorized_labels == _vectorize_labels(labels, rand)
        clusters == IF labels # <<>> THEN _cluster_labels(vectorized_labels)
                    ELSE <<>>
        patterns == [i \in DOMAIN labels |-> DynamicPattern(labels[i])]
    IN PatternAnalysisResult(patterns, labels, clusters, FALSE, "")

\* analyze_pattern without its top-level handler
analyze_pattern_Unhandled(gen, rand, config, fault) ==
    IF fault = "raise"
    THEN RaisedToCaller("unexpected")
    ELSE analyze_pattern_try(gen, rand, config)

\* analyze_pattern: the helpers handle the failures of the generator and of
\* the clusterer; any other exception is caught by the top-level handler
analyze_pattern(gen, rand, config, fault) ==
    IF fault = "raise"
    THEN PatternAnalysisResult(<<>>, <<>>, <<>>, TRUE, "unexpected")
    ELSE analyze_pattern_try(gen, rand, config)

----------------------------------------------------------------------------
(* SpecEngine: analyze_pattern applied to drawn generator responses *)

MaxResp == 2

RawTexts == {"", "#a", "#b"}
RawConfidences == {-2, 5, 8, 15}
RawCounts == {DefaultOccurrenceCount}
RawLabels ==
    [text : RawTexts, confidence : RawConfidences, occurrence_count : RawCounts]

\* LabelResponse puts no bound on occurrence_count, DynamicLabel asks ge=1
ZeroCountLabels ==
    {[text |-> "#a", confidence |-> 8, occurrence_count |-> 0]}

GenResponses ==
    {GenError} \cup
    {[kind |-> "data", labels |-> s] :
        s \in UNION {[1..n -> RawLabels \cup ZeroCountLabels] :
                        n \in 0..MaxResp}}

\* the configuration of ProfileAgent, and one that keeps a single label
\* per analysis (max_labels_per_pattern is declared with ge=1)
EngineConfigs ==
    {AgentEngineConfig,
     [AgentEngineConfig EXCEPT !.max_labels_per_pattern = 1]}

\* draws of np.random.rand(1), in tenths
RandValues == {0, 9}
RandDraws == [1..MaxResp -> RandValues]

InitEngine ==
    /\ store = [u \in Users |-> NoDoc]
    /\ patternHistory = [u \in Users |-> 0]
    /\ httpIn = EngineIdle
    /\ httpOut = EngineIdle
    /\ chatHistories = NoSessions
    /\ cache = [u \in Users |-> NoEntry]
    /\ lastOp = NoOp
    /\ merged = [u \in Users |-> [t \in LabelTexts |-> NoMerge]]
    /\ calls = [u \in Users |-> NoCall]
    /\ tasks = NoTasks
    /\ engineIn \in [gen : GenResponses, rand : RandDraws,
                     config : EngineConfigs, fault : EngineFaults]
    /\ engineOut = EngineIdle
    /\ analyzerIn = EngineIdle
    /\ analyzerOut = EngineIdle
    /\ clusterIn = <<>>
    /\ clusterOut = EngineIdle

AnalyzePattern ==
    /\ engineOut = EngineIdle
    /\ engineOut' = [kind |-> "done",
                     result |-> analyze_pattern(engineIn.gen, engineIn.rand,
                                                engineIn.config,
                                                engineIn.fault)]
    /\ UNCHANGED <<store, patternHistory, cache, lastOp, merged,
                   calls, engineIn, analyzerIn, analyzerOut,
                   clusterIn, clusterOut, tasks, httpIn, httpOut,
                   chatHistories>>

NextEngine == AnalyzePattern

SpecEngine == InitEngine /\ [][NextEngine]_vars

----------------------------------------------------------------------------
(* PatternAnalyzer.  A content is a sequence of words.                      *)

\* the category of the keyword template and of the fallback pattern
PatternCategory_SYSTEMATIC_LEARNING == "SYSTEMATIC_LEARNING"

\* the keywords of the one pattern template
TemplateKeywords == {"step", "order"}
TemplateName == "systematic learning"

NoResponse == [kind |-> "none"]

\* PatternResult: confidence is declared with ge=0.0, le=1.0
PatternResultValid(item) == ConfidenceValid(item.confidence)

\* _full_analysis: a failed or invalid generation is logged and gives None
_full_analysis(gen) ==
    IF gen.kind = "error" THEN NoResponse
    ELSE IF \E i \in DOMAIN gen.patterns : ~PatternResultValid(gen.patterns[i])
    THEN NoResponse
    ELSE [kind |-> "data", patterns |-> gen.patterns]

\* PatternResult.to_pattern
to_pattern(item) ==
    [pattern |-> item.pattern,
     category |-> item.category,
     confidence |-> item.confidence,
     detection_method |-> "llm"]

\* _heuristic_analysis: one Pattern per template one of whose keywords
\* occurs in the content
_heuristic_analysis(content) ==
    IF \E i \in DOMAIN content : content[i] \in TemplateKeywords
    THEN <<[pattern |-> TemplateName,
            category |-> PatternCategory_SYSTEMATIC_LEARNING,
            confidence |-> 7,
            detection_method |-> "heuristic"]>>
    ELSE <<>>

_minimum_patterns ==
    <<[pattern |-> TemplateName,
       category |-> PatternCategory_SYSTEMATIC_LEARNING,
       confidence |-> 6,
       detection_method |-> "fallback"]>>

\* a _create_result whose labels are built with every required field
_create_result_LabelsBuilt(patterns) ==
    [raised |-> FALSE,
     result |-> PatternAnalysisResult(
                    <<>>,
                    [i \in DOMAIN patterns |->
                        DynamicLabel(patterns[i].pattern,
                                     patterns[i].confidence,
                                     DefaultOccurrenceCount)],
                    <<>>, FALSE, "")]

\* _create_result: the result carries no patterns; each pattern becomes
\* DynamicLabel(text=p.pattern), which lacks the required confidence and
\* context and fails validation
_create_result(patterns) ==
    IF patterns # <<>>
    THEN [raised |-> TRUE]
    ELSE [raised |-> FALSE,
          result |-> PatternAnalysisResult(<<>>, <<>>, <<>>, FALSE, "")]

\* PatternAnalyzer.analyze(content) with the generator outcome `gen`
analyze(content, gen) ==
    LET response == _full_analysis(gen)
        heuristic == _heuristic_analysis(content)
        patterns ==
            IF response # NoResponse /\ response.patterns # <<>>
            THEN [i \in DOMAIN response.patterns |->
                     to_pattern(response.patterns[i])]
            ELSE IF heuristic # <<>> THEN heuristic
            ELSE _minimum_patterns
        created == _create_result(patterns)
    IN IF created.raised
       THEN PatternAnalysisResult(_minimum_patterns, <<>>, <<>>, TRUE,
                                  "validation error")
       ELSE created.result

----------------------------------------------------------------------------
(* SpecAnalyzer: analyze applied to drawn contents and generator outcomes *)

MaxWords == 2

AnalyzerWords == {"step", "x"}
AnalyzerContents == UNION {[1..n -> AnalyzerWords] : n \in 0..MaxWords}

RawPatternResults ==
    [pattern : {"A", "B"}, category : {"IDEATION"}, confidence : {8, 15}]

AnalyzerGenResponses ==
    {GenError} \cup
    {[kind |-> "data", patterns |-> s] :
        s \in UNION {[1..n -> RawPatternResults] : n \in 0..MaxResp}}

InitAnalyzer ==
    /\ store = [u \in Users |-> NoDoc]
    /\ patternHistory = [u \in Users |-> 0]
    /\ httpIn = EngineIdle
    /\ httpOut = EngineIdle
    /\ chatHistories = NoSessions
    /\ cache = [u \in Users |-> NoEntry]
    /\ lastOp = NoOp
    /\ merged = [u \in Users |-> [t \in LabelTexts |-> NoMerge]]
    /\ calls = [u \in Users |-> NoCall]
    /\ tasks = NoTasks
    /\ engineIn = EngineIdle
    /\ engineOut = EngineIdle
    /\ analyzerIn \in [content : AnalyzerContents, gen : AnalyzerGenResponses]
    /\ analyzerOut = EngineIdle
    /\ clusterIn = <<>>
    /\ clusterOut = EngineIdle

Analyze ==
    /\ analyzerOut = EngineIdle
    /\ analyzerOut' = [kind |-> "done",
                       result |-> analyze(analyzerIn.content, analyzerIn.gen)]
    /\ UNCHANGED <<store, patternHistory, cache, lastOp, merged, calls,
                   engineIn, engineOut, analyzerIn, clusterIn, clusterOut,
                   tasks, httpIn, httpOut,
                   chatHistories>>

NextAnalyzer == Analyze

SpecAnalyzer == InitAnalyzer /\ [][NextAnalyzer]_vars

----------------------------------------------------------------------------
(* ProfileAgent.  A reflection content is a sequence of characters.        *)

Whitespace == {" "}

RECURSIVE lstrip(_)
lstrip(content) ==
    IF content # <<>> /\ Head(content) \in Whitespace
    THEN lstrip(Tail(content)) ELSE content

RECURSIVE rstrip(_)
rstrip(content) ==
    IF content # <<>> /\ content[Len(content)] \in Whitespace
    THEN rstrip(SubSeq(content, 1, Len(content) - 1)) ELSE content

\* a strip that removes nothing
strip_Identity(content) == content

\* str.strip()
strip(content) == rstrip(lstrip(content))

\* hashlib.sha256(content.encode()).hexdigest(): distinct contents of the
\* model have distinct digests
_generate_content_hash(content) == [sha256 |-> content]

\* a reflection content that is not a str (a list read from a stored
\* document): it has no strip method
NotAString == <<"not a str">>

LastAnalysis(content_hash, result) ==
    [present |-> TRUE, content_hash |-> content_hash, result |-> result]

ErrorResult(message) == PatternAnalysisResult(<<>>, <<>>, <<>>, TRUE, message)

\* profile_agent.py imports Pattern, DynamicLabel, ... from agents.models
\* but not PatternContext: PatternContext(...) raises NameError
PatternContextImported == FALSE

\* the pattern loop of analyze_reflection: empty names are skipped; building
\* the context raises inside the per-pattern try, so the pattern is skipped
ReflectionPatterns(analysis_patterns) ==
    LET named(p) == p.pattern # ""
        kept == SelectSeq(analysis_patterns, named)
    IN IF PatternContextImported
       THEN [i \in DOMAIN kept |->
                [pattern |-> kept[i].pattern,
                 category |-> IF kept[i].category # "" THEN kept[i].category
                              ELSE "behavioral",
                 confidence |-> kept[i].confidence,
                 detection_method |-> "llm_analysis"]]
       ELSE <<>>

\* the label loop of analyze_reflection: empty texts are skipped, the label
\* is rebuilt as DynamicLabel(text, confidence, context)
ReflectionLabels(analysis_labels) ==
    LET hasText(l) == l.text # ""
        kept == SelectSeq(analysis_labels, hasText)
    IN [i \in DOMAIN kept |->
           DynamicLabel(kept[i].text, kept[i].confidence,
                        DefaultOccurrenceCount)]

\* UserPattern declares pattern, category, confidence, last_updated and a
\* required examples; the first construction in _convert_to_user_pattern
\* passes context and no examples
ConversionSuppliesExamples == FALSE

\* _convert_to_user_pattern: the first UserPattern(...) fails validation and
\* the handler builds the pattern from default values
_convert_to_user_pattern(pattern) ==
    IF ConversionSuppliesExamples
    THEN [pattern |-> pattern.pattern,
          category |-> IF pattern.category # "" THEN pattern.category
                       ELSE "behavioral",
          confidence |-> IF pattern.confidence # 0 THEN pattern.confidence
                         ELSE 5]
    ELSE [pattern |-> pattern.pattern,
          category |-> "behavioral",
          confidence |-> 5]

RECURSIVE MergePatterns(_, _, _, _, _)
\* for pattern in analysis.patterns: convert, add_pattern; a raise is
\* counted and the loop continues
MergePatterns(st, hist, user_id, patterns, faults) ==
    IF patterns = <<>> THEN [store |-> st, history |-> hist]
    ELSE LET r == add_pattern(st, hist, user_id,
                              _convert_to_user_pattern(Head(patterns)),
                              Head(faults))
         IN MergePatterns(r.store, r.history, user_id,
                          Tail(patterns), Tail(faults))

RECURSIVE MergeLabels(_, _, _, _)
\* for label in analysis.labels: skip an empty text, add_label; a raise is
\* counted and the loop continues
MergeLabels(st, user_id, labels, faults) ==
    IF labels = <<>> THEN st
    ELSE IF Head(labels).text = ""
         THEN MergeLabels(st, user_id, Tail(labels), Tail(faults))
         ELSE MergeLabels(add_label(st, user_id, Head(labels),
                                    Head(faults)).store,
                          user_id, Tail(labels), Tail(faults))

RECURSIVE MergeClusters(_, _, _, _)
\* for cluster in analysis.clusters: skip an empty label list,
\* update_cluster; a raise is counted and the loop continues
MergeClusters(st, user_id, clusters, faults) ==
    IF clusters = <<>> THEN st
    ELSE IF Head(clusters).labels = <<>>
         THEN MergeClusters(st, user_id, Tail(clusters), Tail(faults))
         ELSE MergeClusters(update_cluster(st, user_id, Head(clusters),
                                           Head(faults)).store,
                            user_id, Tail(clusters), Tail(faults))

\* a merge that gives up when a repository call fails
_update_profile_with_analysis_AbortsOnFailure(st, hist, user_id, analysis, faults) ==
    IF \/ \E i \in DOMAIN faults.patterns : faults.patterns[i] # "none"
       \/ \E i \in DOMAIN faults.labels : faults.labels[i] # "none"
       \/ \E i \in DOMAIN faults.clusters : faults.clusters[i] # "none"
    THEN [raised |-> TRUE, store |-> st, history |-> hist]
    ELSE [raised |-> FALSE,
          store |-> MergeClusters(
                        MergeLabels(MergePatterns(st, hist, user_id,
                                                  analysis.patterns,
                                                  faults.patterns).store,
                                    user_id, analysis.labels, faults.labels),
                        user_id, analysis.clusters, faults.clusters),
          history |-> MergePatterns(st, hist, user_id, analysis.patterns,
                                    faults.patterns).history]

\* _update_profile_with_analysis: every per-item failure is caught, so the
\* method returns normally
_update_profile_with_analysis(st, hist, user_id, analysis, faults) ==
    LET afterPatterns == MergePatterns(st, hist, user_id, analysis.patterns,
                                       faults.patterns)
        afterLabels == MergeLabels(afterPatterns.store, user_id,
                                   analysis.labels, faults.labels)
        afterClusters == MergeClusters(afterLabels, user_id,
                                       analysis.clusters, faults.clusters)
    IN [raised |-> FALSE, store |-> afterClusters,
        history |-> afterPatterns.history]

\* a lookup that never finds the entry
CacheHit_Never(entry, content_hash) == FALSE

\* last and last.content_hash == content_hash
CacheHit(entry, content_hash) ==
    entry.present /\ entry.content_hash = content_hash

\* the end of analyze_reflection after the merge `upd`: a raise of the
\* merge gives an error result, otherwise the result is cached and returned
analyze_reflection_store(ca, user_id, content_hash, engine_result, analysis_result, upd) ==
    IF upd.raised
    THEN [result |-> ErrorResult("profile update failed"),
          store |-> upd.store, history |-> upd.history, cache |-> ca,
          gen_calls |-> 1, hit |-> FALSE, engine |-> engine_result]
    ELSE [result |-> analysis_result,
          store |-> upd.store, history |-> upd.history,
          cache |-> [ca EXCEPT ![user_id] =
                        LastAnalysis(content_hash, analysis_result)],
          gen_calls |-> 1, hit |-> FALSE, engine |-> engine_result]

\* an analyze_reflection that does not look at the engine's error flag
analyze_reflection_miss_IgnoresError(st, hist, ca, user_id, content_hash, engine_result, analysis_result, faults) ==
    analyze_reflection_store(
        ca, user_id, content_hash, engine_result, analysis_result,
        _update_profile_with_analysis(st, hist, user_id, analysis_result,
                                      faults))

\* analyze_reflection once the engine has returned `engine_result`: an
\* engine error is returned as it is; otherwise the patterns and labels are
\* rebuilt, merged into the profile and cached
analyze_reflection_miss(st, hist, ca, user_id, content_hash, engine_result, analysis_result, faults) ==
    IF Raised(engine_result)
    THEN \* the top-level handler
         [result |-> ErrorResult(engine_result.error_message),
          store |-> st, history |-> hist, cache |-> ca, gen_calls |-> 1,
          hit |-> FALSE, engine |-> engine_result]
    ELSE IF engine_result.error_occurred
    THEN [result |-> engine_result, store |-> st, history |-> hist,
          cache |-> ca, gen_calls |-> 1, hit |-> FALSE,
          engine |-> engine_result]
    ELSE analyze_reflection_store(
             ca, user_id, content_hash, engine_result, analysis_result,
             _update_profile_with_analysis(st, hist, user_id,
                                           analysis_result, faults))

\* the result analyze_reflection builds from the engine's
ReflectionResult(engine_result) ==
    IF Raised(engine_result) THEN engine_result
    ELSE PatternAnalysisResult(ReflectionPatterns(engine_result.patterns),
                               ReflectionLabels(engine_result.labels),
                               <<>>, FALSE, "")

\* analyze_reflection up to the engine call
analyze_reflection_engine(st, hist, ca, user_id, content_hash, engine_result, faults) ==
    analyze_reflection_miss(st, hist, ca, user_id, content_hash,
                            engine_result, ReflectionResult(engine_result),
                            faults)

\* a return from the cache that empties the cache
analyze_reflection_early_DropsCache(st, hist, ca, result, hit) ==
    [result |-> result, store |-> st, history |-> hist,
     cache |-> IF hit THEN [u \in DOMAIN ca |-> NoEntry] ELSE ca,
     gen_calls |-> 0, hit |-> hit, engine |-> EngineIdle]

\* a return of analyze_reflection before the engine is called
analyze_reflection_early(st, hist, ca, result, hit) ==
    [result |-> result, store |-> st, history |-> hist, cache |-> ca,
     gen_calls |-> 0, hit |-> hit, engine |-> EngineIdle]

\* analyze_reflection(user_id, reflection_content) with the generator
\* outcome `gen`, the vectoriser draws `rand` and the store faults `faults`.
\* Returns the result, the state it leaves, the number of generator
\* invocations it made and whether it was served from the cache.
analyze_reflection(st, hist, ca, user_id, reflection_content, gen, rand, faults) ==
    IF reflection_content = NotAString
    THEN \* reflection_content.strip raises: the top-level handler
         analyze_reflection_early(st, hist, ca,
                                  ErrorResult("no attribute strip"), FALSE)
    ELSE IF strip(reflection_content) = <<>>
    THEN analyze_reflection_early(st, hist, ca,
                                  ErrorResult("empty content"), FALSE)
    ELSE IF CacheHit(ca[user_id], _generate_content_hash(reflection_content))
    THEN analyze_reflection_early(st, hist, ca, ca[user_id].result, TRUE)
    ELSE analyze_reflection_engine(
             st, hist, ca, user_id,
             _generate_content_hash(reflection_content),
             analyze_pattern(gen, rand, AgentEngineConfig, faults.engine),
             faults)

RECURSIVE AddPatterns(_, _, _, _, _)
\* for pattern in request.patterns: add_pattern; a raise ends update_profile
AddPatterns(st, hist, user_id, patterns, faults) ==
    IF patterns = <<>>
    THEN [raised |-> FALSE, store |-> st, history |-> hist]
    ELSE LET r == add_pattern(st, hist, user_id, Head(patterns), Head(faults))
         IN IF r.raised THEN r
            ELSE AddPatterns(r.store, r.history, user_id,
                             Tail(patterns), Tail(faults))

RECURSIVE AddLabels(_, _, _, _)
AddLabels(st, user_id, labels, faults) ==
    IF labels = <<>> THEN [raised |-> FALSE, store |-> st]
    ELSE LET r == add_label(st, user_id, Head(labels), Head(faults))
         IN IF r.raised THEN r
            ELSE AddLabels(r.store, user_id, Tail(labels), Tail(faults))

RECURSIVE AddCategories(_, _, _, _)
AddCategories(st, user_id, categories, faults) ==
    IF categories = <<>> THEN [raised |-> FALSE, store |-> st]
    ELSE LET r == add_category(st, user_id, Head(categories), Head(faults))
         IN IF r.raised THEN r
            ELSE AddCategories(r.store, user_id, Tail(categories),
                               Tail(faults))

\* update_profile(user_id, request): the repository calls in order, the
\* first raise propagates; the cache entry is deleted at the end
update_profile(st, hist, ca, user_id, request, faults) ==
    LET raisedAt(store_, hist_) ==
            [raised |-> TRUE, store |-> store_, history |-> hist_,
             cache |-> ca]
        s1 == AddPatterns(st, hist, user_id, request.patterns,
                          faults.patterns)
        s2 == IF request.instructions # <<>>
              THEN update_instructions(s1.store, user_id,
                                       request.instructions,
                                       faults.instructions)
              ELSE [raised |-> FALSE, store |-> s1.store]
        s3 == IF request.personalized_instructions # NoInstructions
              THEN update_personalized_instructions(
                       s2.store, user_id, request.personalized_instructions,
                       faults.personalized_instructions)
              ELSE [raised |-> FALSE, store |-> s2.store]
        s4 == AddLabels(s3.store, user_id, request.labels, faults.labels)
        s5 == AddCategories(s4.store, user_id, request.categories,
                            faults.categories)
    IN IF s1.raised THEN raisedAt(s1.store, s1.history)
       ELSE IF s2.raised THEN raisedAt(s2.store, s1.history)
       ELSE IF s3.raised THEN raisedAt(s3.store, s1.history)
       ELSE IF s4.raised THEN raisedAt(s4.store, s1.history)
       ELSE IF s5.raised THEN raisedAt(s5.store, s1.history)
       ELSE [raised |-> FALSE, store |-> s5.store, history |-> s1.history,
             cache |-> [ca EXCEPT ![user_id] = NoEntry]]

----------------------------------------------------------------------------
(* Spec: the agent's operations *)

AgentUsers == {"u1"}

Contents == {<<>>, <<" ">>, <<"a">>, <<" ", "a">>}

\* generator outcomes offered to the agent: a failed call, and responses
\* of valid, low-confidence, empty-text and out-of-range items
AgentRawLabels ==
    {l \in RawLabels : l.confidence = 8 \/ l.text = "#a"}
AgentValidLabels ==
    {l \in AgentRawLabels : l.confidence = 8 /\ l.text # ""}
AgentOutOfRange ==
    {l \in AgentRawLabels : ~ConfidenceValid(l.confidence)}
AgentGenResponses ==
    {GenError, [kind |-> "data", labels |-> <<>>]} \cup
    {[kind |-> "data", labels |-> <<x>>] : x \in AgentRawLabels} \cup
    {[kind |-> "data", labels |-> <<x, y>>] : x, y \in AgentValidLabels} \cup
    {[kind |-> "data", labels |-> <<x, y>>] :
        x \in AgentValidLabels, y \in AgentOutOfRange}
AgentRandDraws == {[i \in 1..MaxResp |-> 0]}

\* store faults of one merge: one per pattern, label and cluster of the
\* analysis result
MergeFaults(analysis_labels) ==
    [patterns : {<<>>},
     labels : [DOMAIN analysis_labels -> LabelFaults],
     clusters : {<<>>},
     engine : {"none"}]

NoMergeFaults ==
    [patterns |-> <<>>, labels |-> <<>>, clusters |-> <<>>, engine |-> "none"]

\* the engine call meets an exception: no merge follows
EngineRaises == [NoMergeFaults EXCEPT !.engine = "raise"]

RequestPatterns ==
    {<<>>} \cup {<<p>> : p \in {q \in UserPatterns :
                                  q.pattern = "P" /\ q.confidence = 9}}
RequestInstructions == {<<>>, <<"code">>}
RequestPersonalized == {NoInstructions}
RequestLabels ==
    {<<>>} \cup {<<l>> : l \in {m \in DynamicLabels :
                                  m.text = "#a" /\ m.confidence = 5}}
RequestCategories == {<<>>}

ProfileUpdateRequests ==
    [patterns : RequestPatterns,
     instructions : RequestInstructions,
     personalized_instructions : RequestPersonalized,
     labels : RequestLabels,
     categories : RequestCategories]

\* store faults of one update_profile: at most one repository call fails
RequestFaults(request) ==
    LET all == [patterns : [DOMAIN request.patterns -> PatternFaults],
                instructions : IF request.instructions # <<>>
                               THEN LabelFaults ELSE {"none"},
                personalized_instructions :
                    IF request.personalized_instructions # NoInstructions
                    THEN LabelFaults ELSE {"none"},
                labels : [DOMAIN request.labels -> LabelFaults],
                categories : [DOMAIN request.categories -> LabelFaults]]
        count(f) ==
            Cardinality({i \in DOMAIN f.patterns : f.patterns[i] # "none"})
            + Cardinality({i \in DOMAIN f.labels : f.labels[i] # "none"})
            + Cardinality({i \in DOMAIN f.categories :
                              f.categories[i] # "none"})
            + (IF f.instructions # "none" THEN 1 ELSE 0)
            + (IF f.personalized_instructions # "none" THEN 1 ELSE 0)
    IN {f \in all : count(f) <= 1}

Init == InitCommon

\* the confidences of the patterns and labels of a result of the engine
\* (none when the engine was not run)
ResultConfidences(result) ==
    IF result = EngineIdle \/ Raised(result) THEN {}
    ELSE {result.patterns[i].confidence : i \in DOMAIN result.patterns}
         \cup {result.labels[i].confidence : i \in DOMAIN result.labels}

\* the clusters of a result of the engine that have labels
ResultClusters(result) ==
    IF result = EngineIdle \/ Raised(result) THEN {}
    ELSE {result.clusters[i] : i \in {j \in DOMAIN result.clusters :
                                         result.clusters[j].labels # <<>>}}

\* a repository call of the merge raised
MergeFailed(faults) ==
    \/ \E i \in DOMAIN faults.patterns : faults.patterns[i] # "none"
    \/ \E i \in DOMAIN faults.labels : faults.labels[i] # "none"
    \/ \E i \in DOMAIN faults.clusters : faults.clusters[i] # "none"

\* how the engine call of an analyze_reflection ended (nothing when the
\* engine was not run)
EngineOutcome(result) ==
    IF result = EngineIdle
    THEN [called |-> FALSE]
    ELSE IF Raised(result)
    THEN [called |-> TRUE, raised |-> TRUE]
    ELSE [called |-> TRUE, raised |-> FALSE,
          error_occurred |-> result.error_occurred,
          patterns |-> Len(result.patterns),
          error_message |-> result.error_message,
          error_result |-> IF result.error_occurred THEN result
                           ELSE EngineIdle]

\* the non-empty texts of the labels of a result of the engine, in order
ResultTexts(result) ==
    IF result = EngineIdle \/ Raised(result) THEN <<>>
    ELSE LET hasText(l) == l.text # ""
             kept == SelectSeq(result.labels, hasText)
         IN [i \in DOMAIN kept |-> kept[i].text]

AnalyzeReflectionWith(u, c, gen, rand, faults) ==
    \E r \in {analyze_reflection(store, patternHistory, cache, u, c, gen,
                                  rand, faults)} :
       /\ store' = r.store
       /\ patternHistory' = r.history
       /\ cache' = r.cache
       /\ calls' = [calls EXCEPT ![u] =
                       [op |-> "analyze_reflection", content |-> c,
                        result |-> r.result, gen_calls |-> r.gen_calls,
                        hit |-> r.hit,
                        engine_confidences |-> ResultConfidences(r.engine),
                        engine_texts |-> ResultTexts(r.engine),
                        engine_clusters |-> ResultClusters(r.engine),
                        engine_fault |-> faults.engine,
                        merge_failed |-> MergeFailed(faults),
                        engine |-> EngineOutcome(r.engine)]]
       /\ lastOp' = [op |-> "analyze_reflection", user |-> u]
       /\ UNCHANGED <<merged, engineIn, engineOut, analyzerIn, analyzerOut,
                      clusterIn, clusterOut, tasks, httpIn, httpOut,
                   chatHistories>>

\* whether the call returns before the engine is called
ReturnsEarly(u, c) ==
    \/ c = NotAString
    \/ strip(c) = <<>>
    \/ CacheHit(cache[u], _generate_content_hash(c))

\* the store faults a call can meet: one per label the merge adds
ReflectionFaults(gen, rand) ==
    MergeFaults(ReflectionLabels(
                    analyze_pattern_try(gen, rand, AgentEngineConfig).labels))

\* the generator, the vectoriser and the store are consulted only when the
\* call gets past the empty-content guard and the cache
AnalyzeReflectionFrom(contents, engine_faults) ==
    \E u \in AgentUsers, c \in contents :
        \E early \in {ReturnsEarly(u, c)} :
            \E gen \in IF early THEN {GenError} ELSE AgentGenResponses,
               rand \in AgentRandDraws :
                \E faults \in IF early THEN {NoMergeFaults}
                               ELSE ReflectionFaults(gen, rand)
                                    \cup engine_faults :
                    AnalyzeReflectionWith(u, c, gen, rand, faults)

\* calls with str contents whose engine call meets no exception of its own
AnalyzeReflection == AnalyzeReflectionFrom(Contents, {})

UpdateProfile ==
    \E u \in AgentUsers, request \in ProfileUpdateRequests :
        \E faults \in RequestFaults(request) :
            \E r \in {update_profile(store, patternHistory, cache, u,
                                      request, faults)} :
               /\ request.patterns # <<>> => patternHistory[u] < MaxHistory
               /\ store' = r.store
               /\ patternHistory' = r.history
               /\ cache' = r.cache
               /\ calls' = [calls EXCEPT ![u] = NoCall]
               /\ lastOp' = [op |-> "update_profile", user |-> u,
                             raised |-> r.raised]
               /\ UNCHANGED <<merged, engineIn, engineOut, analyzerIn,
                              analyzerOut, clusterIn, clusterOut,
                              tasks, httpIn, httpOut,
                   chatHistories>>

Next == AnalyzeReflection \/ UpdateProfile

Spec == Init /\ [][Next]_vars

----------------------------------------------------------------------------
(* SpecFaulty: the agent's operations when, in addition, a content may not *)
(* be a str and the engine call may meet an exception                      *)

FaultyContents == {<<" ">>, <<"a">>, <<" ", "a">>, NotAString}

AnalyzeReflectionFaulty ==
    AnalyzeReflectionFrom(FaultyContents, {EngineRaises})

NextFaulty == AnalyzeReflectionFaulty \/ UpdateProfile

SpecFaulty == Init /\ [][NextFaulty]_vars

----------------------------------------------------------------------------
(* SpecHit: analyze_reflection calls of two users, whose entries share the *)
(* one _last_analysis dict of the agent; no store fault                    *)

HitContents == {<<"a">>, <<" ", "a">>}

HitGenResponses ==
    {[kind |-> "data", labels |-> <<x>>] : x \in AgentValidLabels} \cup
    {[kind |-> "data", labels |-> <<x, y>>] :
        x, y \in {l \in AgentValidLabels : l.text = "#a"}}

AnalyzeReflectionHit ==
    \E u \in Users, c \in HitContents :
        \E early \in {ReturnsEarly(u, c)} :
            \E gen \in IF early THEN {GenError} ELSE HitGenResponses,
               rand \in AgentRandDraws :
                \E faults \in IF early THEN {NoMergeFaults}
                               ELSE {f \in ReflectionFaults(gen, rand) :
                                        ~MergeFailed(f)} :
                    AnalyzeReflectionWith(u, c, gen, rand, faults)

NextHit == AnalyzeReflectionHit

SpecHit == Init /\ [][NextHit]_vars

----------------------------------------------------------------------------
(* SpecConcurrent: two analyze_reflection calls for one user, run as       *)
(* concurrent tasks.  A task is suspended at the engine call and at every  *)
(* repository call; each repository call is one transaction.               *)

TaskIds == {1, 2}
TaskUser == "u1"

\* the two calls analyse different contents
TaskContent(t) == IF t = 1 THEN <<"a">> ELSE <<" ", "a">>

TaskGenResponses ==
    {GenError} \cup
    {[kind |-> "data", labels |-> <<x>>] : x \in AgentRawLabels} \cup
    {[kind |-> "data", labels |-> <<x, y>>] : x, y \in AgentValidLabels}

\* labels a profile may hold before the calls start
TaskInitialLabels ==
    {<<>>} \cup {<<_to_dict(l)>> : l \in {m \in DynamicLabels : m.text = "#b"}}

IdleTask(t) ==
    [pc |-> "idle", content |-> TaskContent(t), result |-> NoCall,
     pending |-> <<>>, contributed |-> {}]

InitConcurrent ==
    /\ \E labels \in TaskInitialLabels :
           store = [u \in Users |->
                       IF u = TaskUser /\ labels # <<>>
                       THEN UserProfile(<<>>, labels, <<>>) ELSE NoDoc]
    /\ patternHistory = [u \in Users |-> 0]
    /\ httpIn = EngineIdle
    /\ httpOut = EngineIdle
    /\ chatHistories = NoSessions
    /\ cache = [u \in Users |-> NoEntry]
    /\ lastOp = NoOp
    /\ merged = [u \in Users |-> [t \in LabelTexts |-> NoMerge]]
    /\ calls = [u \in Users |-> NoCall]
    /\ tasks = [t \in TaskIds |-> IdleTask(t)]
    /\ engineIn = EngineIdle
    /\ engineOut = EngineIdle
    /\ analyzerIn = EngineIdle
    /\ analyzerOut = EngineIdle
    /\ clusterIn = <<>>
    /\ clusterOut = EngineIdle

\* the call runs up to its first suspension: the empty-content guard and
\* the cache check
TaskStart ==
    \E t \in TaskIds :
        /\ tasks[t].pc = "idle"
        /\ tasks' = [tasks EXCEPT ![t] =
               IF strip(tasks[t].content) = <<>>
               THEN [@ EXCEPT !.pc = "done",
                              !.result = ErrorResult("empty content")]
               ELSE IF CacheHit(cache[TaskUser],
                                _generate_content_hash(tasks[t].content))
               THEN [@ EXCEPT !.pc = "done",
                              !.result = cache[TaskUser].result]
               ELSE [@ EXCEPT !.pc = "engine"]]
        /\ UNCHANGED <<store, patternHistory, cache, lastOp, merged, calls,
                       engineIn, engineOut, analyzerIn, analyzerOut,
                       clusterIn, clusterOut, httpIn, httpOut,
                   chatHistories>>

\* the engine returns: an error result ends the call; otherwise the result
\* is rebuilt, its patterns are merged and its labels wait to be merged
TaskEngine ==
    \E t \in TaskIds, gen \in TaskGenResponses, fault \in EngineFaults :
        \E engine_result \in {analyze_pattern(gen, [i \in 1..MaxResp |-> 0],
                                               AgentEngineConfig, fault)} :
          \E analysis_result \in {ReflectionResult(engine_result)} :
            \E afterPatterns \in
                  {MergePatterns(store, patternHistory, TaskUser,
                                 analysis_result.patterns,
                                 [i \in DOMAIN analysis_result.patterns
                                     |-> "none"])} :
                /\ tasks[t].pc = "engine"
                /\ IF engine_result.error_occurred
                   THEN /\ tasks' = [tasks EXCEPT ![t].pc = "done",
                                                  ![t].result = engine_result]
                        /\ UNCHANGED <<store, patternHistory>>
                   ELSE /\ tasks' = [tasks EXCEPT
                                        ![t].pc = "merge",
                                        ![t].result = analysis_result,
                                        ![t].pending = analysis_result.labels]
                        /\ store' = afterPatterns.store
                        /\ patternHistory' = afterPatterns.history
                /\ UNCHANGED <<cache, lastOp, merged, calls, engineIn,
                               engineOut, analyzerIn, analyzerOut, clusterIn,
                               clusterOut, httpIn, httpOut,
                   chatHistories>>

\* one iteration of the label loop of _update_profile_with_analysis
TaskMergeLabel ==
    \E t \in TaskIds, fault \in LabelFaults :
        /\ tasks[t].pc = "merge"
        /\ tasks[t].pending # <<>>
        /\ \E r \in {add_label(store, TaskUser, Head(tasks[t].pending),
                                 fault)} :
              IF Head(tasks[t].pending).text = ""
              THEN /\ fault = "none"
                   /\ tasks' = [tasks EXCEPT ![t].pending = Tail(@)]
                   /\ UNCHANGED store
              ELSE /\ store' = r.store
                   /\ tasks' = [tasks EXCEPT
                         ![t].pending = Tail(@),
                         ![t].contributed =
                             IF r.raised THEN @
                             ELSE @ \cup {_to_dict(Head(tasks[t].pending))}]
        /\ UNCHANGED <<patternHistory, cache, lastOp, merged, calls,
                       engineIn, engineOut, analyzerIn, analyzerOut,
                       clusterIn, clusterOut, httpIn, httpOut,
                   chatHistories>>

\* the merge has ended: the result is cached and returned
TaskFinish ==
    \E t \in TaskIds :
        /\ tasks[t].pc = "merge"
        /\ tasks[t].pending = <<>>
        /\ tasks' = [tasks EXCEPT ![t].pc = "done"]
        /\ cache' = [cache EXCEPT ![TaskUser] =
                        LastAnalysis(_generate_content_hash(tasks[t].content),
                                     tasks[t].result)]
        /\ UNCHANGED <<store, patternHistory, lastOp, merged, calls,
                       engineIn, engineOut, analyzerIn, analyzerOut,
                       clusterIn, clusterOut, httpIn, httpOut,
                   chatHistories>>

NextConcurrent == TaskStart \/ TaskEngine \/ TaskMergeLabel \/ TaskFinish

SpecConcurrent == InitConcurrent /\ [][NextConcurrent]_vars

----------------------------------------------------------------------------
(* SpecMerge: _update_profile_with_analysis called with drawn analysis     *)
(* results, as analyze_reflection and the analyze endpoint of api.py call  *)
(* it one after the other                                                  *)

MergeUser == "u1"

MergePatternLists ==
    {<<>>} \cup {<<p>> : p \in {q \in UserPatterns : q.confidence = 9}}
\* label lists with a text given twice, two texts and an empty text
MergeLabelLists ==
    {<<>>,
     <<DynamicLabel("#a", 5, DefaultOccurrenceCount)>>,
     <<DynamicLabel("#a", 8, DefaultOccurrenceCount),
       DynamicLabel("#a", 5, DefaultOccurrenceCount)>>,
     <<DynamicLabel("", 5, DefaultOccurrenceCount),
       DynamicLabel("#b", 5, DefaultOccurrenceCount)>>}
\* cluster lists: a cluster id given twice around a cluster without labels
MergeClusterLists ==
    {<<>>,
     <<LabelCluster(0, <<"#a">>, <<5>>), LabelCluster(0, <<>>, <<>>),
       LabelCluster(0, <<"#a", "#b">>, <<5, 8>>)>>}

AnalysisResults ==
    [patterns : MergePatternLists, labels : MergeLabelLists,
     clusters : MergeClusterLists]

\* store faults of one call: at most one repository call fails
AnalysisFaults(analysis) ==
    LET all == [patterns : [DOMAIN analysis.patterns -> PatternFaults],
                labels : [DOMAIN analysis.labels -> LabelFaults],
                clusters : [DOMAIN analysis.clusters -> LabelFaults]]
        count(f) ==
            Cardinality({i \in DOMAIN f.patterns : f.patterns[i] # "none"})
            + Cardinality({i \in DOMAIN f.labels : f.labels[i] # "none"})
            + Cardinality({i \in DOMAIN f.clusters : f.clusters[i] # "none"})
    IN {f \in all : count(f) <= 1}

FaultFree(f) ==
    /\ \A i \in DOMAIN f.patterns : f.patterns[i] = "none"
    /\ \A i \in DOMAIN f.labels : f.labels[i] = "none"
    /\ \A i \in DOMAIN f.clusters : f.clusters[i] = "none"

InitMerge == InitCommon

\* `turn` alternates so that consecutive calls differ
UpdateProfileWithAnalysis ==
    \E analysis \in AnalysisResults :
        \E faults \in AnalysisFaults(analysis) :
            \E r \in {_update_profile_with_analysis(
                          store, patternHistory, MergeUser, analysis,
                          faults)} :
               /\ patternHistory[MergeUser] + Len(analysis.patterns)
                      <= MaxHistory
               /\ store' = r.store
               /\ patternHistory' = r.history
               /\ lastOp' = [op |-> "_update_profile_with_analysis",
                             user |-> MergeUser, analysis |-> analysis,
                             fault_free |-> FaultFree(faults),
                             turn |-> IF IsOp(lastOp,
                                         "_update_profile_with_analysis")
                                      THEN 1 - lastOp.turn ELSE 0]
               /\ UNCHANGED <<cache, merged, calls, engineIn, engineOut,
                              analyzerIn, analyzerOut, clusterIn,
                              clusterOut, tasks, httpIn, httpOut,
                   chatHistories>>

NextMerge == UpdateProfileWithAnalysis

SpecMerge == InitMerge /\ [][NextMerge]_vars

----------------------------------------------------------------------------
(* SpecGrow: add_pattern, add_label, update_cluster and add_category       *)
(* called in any order on one profile document                             *)

GrowPatterns == {p \in UserPatterns : p.confidence = 9}
GrowLabels == {l \in DynamicLabels : l.confidence = 5}
GrowClusters ==
    {LabelCluster(0, <<"#a">>, <<5>>), LabelCluster(0, <<"#a", "#b">>, <<5, 8>>),
     LabelCluster(1, <<"#b">>, <<8>>)}
GrowCategories ==
    {[name |-> "K", weight |-> 10], [name |-> "K", weight |-> 5],
     [name |-> "L", weight |-> 10]}

StoredClusterIds(doc) ==
    {StoredClusters(doc)[i].cluster_id : i \in DOMAIN StoredClusters(doc)}

StoredCategories(doc) == IF doc.exists THEN doc.categories ELSE <<>>

StoredCategoryNames(doc) ==
    {StoredCategories(doc)[i].name : i \in DOMAIN StoredCategories(doc)}

InitGrow == InitCommon

GrowAddPattern ==
    \E u \in RepoUsers, p \in GrowPatterns, f \in PatternFaults :
        \E r \in {add_pattern(store, patternHistory, u, p, f)} :
           /\ patternHistory[u] < MaxHistory
           /\ store' = r.store
           /\ patternHistory' = r.history
           /\ lastOp' = [op |-> "add_pattern", user |-> u,
                         raised |-> r.raised,
                         existed |-> p.pattern \in StoredPatternNames(store[u])]
           /\ UNCHANGED <<cache, merged, calls,
                          engineIn, engineOut, analyzerIn, analyzerOut,
                          clusterIn, clusterOut, tasks, httpIn, httpOut,
                   chatHistories>>

GrowAddLabel ==
    \E u \in RepoUsers, l \in GrowLabels, f \in LabelFaults :
        \E r \in {add_label(store, u, l, f)} :
           /\ store' = r.store
           /\ lastOp' = [op |-> "add_label", user |-> u,
                         raised |-> r.raised,
                         existed |-> l.text \in StoredLabelTexts(store[u])]
           /\ UNCHANGED <<patternHistory, cache, merged, calls,
                          engineIn, engineOut, analyzerIn, analyzerOut,
                          clusterIn, clusterOut, tasks, httpIn, httpOut,
                   chatHistories>>

GrowUpdateCluster ==
    \E u \in RepoUsers, c \in GrowClusters, f \in LabelFaults :
        \E r \in {update_cluster(store, u, c, f)} :
           /\ store' = r.store
           /\ lastOp' = [op |-> "update_cluster", user |-> u,
                         raised |-> r.raised,
                         existed |-> c.cluster_id
                                        \in StoredClusterIds(store[u])]
           /\ UNCHANGED <<patternHistory, cache, merged, calls,
                          engineIn, engineOut, analyzerIn, analyzerOut,
                          clusterIn, clusterOut, tasks, httpIn, httpOut,
                   chatHistories>>

GrowAddCategory ==
    \E u \in RepoUsers, c \in GrowCategories, f \in LabelFaults :
        \E r \in {add_category(store, u, c, f)} :
           /\ store' = r.store
           /\ lastOp' = [op |-> "add_category", user |-> u,
                         raised |-> r.raised,
                         existed |-> c.name \in StoredCategoryNames(store[u])]
           /\ UNCHANGED <<patternHistory, cache, merged, calls,
                          engineIn, engineOut, analyzerIn, analyzerOut,
                          clusterIn, clusterOut, tasks, httpIn, httpOut,
                   chatHistories>>

NextGrow ==
    GrowAddPattern \/ GrowAddLabel \/ GrowUpdateCluster \/ GrowAddCategory

SpecGrow == InitGrow /\ [][NextGrow]_vars

----------------------------------------------------------------------------
(* SpecBatch: _update_profile_with_analysis called with analysis results   *)
(* of several items while one repository call may fail                     *)

BatchPattern(name) == [pattern |-> name, category |-> "C", confidence |-> 9]
BatchPatternLists ==
    {<<>>, <<BatchPattern("P"), BatchPattern("Q")>>, <<BatchPattern("")>>}
BatchLabelLists ==
    {<<>>,
     <<DynamicLabel("#a", 5, DefaultOccurrenceCount),
       DynamicLabel("#b", 5, DefaultOccurrenceCount)>>}
BatchClusterLists ==
    {<<>>,
     <<LabelCluster(0, <<"#a">>, <<5>>), LabelCluster(1, <<"#b">>, <<8>>)>>}

BatchResults ==
    [patterns : BatchPatternLists, labels : BatchLabelLists,
     clusters : BatchClusterLists]

InitBatch == InitCommon

UpdateProfileWithAnalysisBatch ==
    \E analysis \in BatchResults :
        \E faults \in AnalysisFaults(analysis) :
            \E r \in {_update_profile_with_analysis(
                          store, patternHistory, MergeUser, analysis,
                          faults)} :
               /\ patternHistory[MergeUser] + Len(analysis.patterns)
                      <= MaxHistory
               /\ store' = r.store
               /\ patternHistory' = r.history
               /\ lastOp' = [op |-> "_update_profile_with_analysis",
                             user |-> MergeUser, analysis |-> analysis,
                             faults |-> faults, raised |-> r.raised,
                             turn |-> IF IsOp(lastOp,
                                         "_update_profile_with_analysis")
                                      THEN 1 - lastOp.turn ELSE 0]
               /\ UNCHANGED <<cache, merged, calls, engineIn, engineOut,
                              analyzerIn, analyzerOut, clusterIn,
                              clusterOut, tasks, httpIn, httpOut,
                   chatHistories>>

NextBatch == UpdateProfileWithAnalysisBatch

SpecBatch == InitBatch /\ [][NextBatch]_vars

----------------------------------------------------------------------------
(* SpecLoop: a get_profile for a user without a document, and add_pattern, *)
(* add_label and update_cluster calls of other requests for the same user. *)
(* The coroutines run on the one event loop of the process, which passes   *)
(* from one to another only where the running one awaits something that    *)
(* suspends.  The repository uses the synchronous Firestore client: a      *)
(* merge is one call that runs its transaction to the end, and get_profile *)
(* calls get() and then set() without an await between them.               *)

LoopUser == "u1"

\* a get_profile whose get() and set() are awaited calls that suspend
GetSetSuspends_Awaited == TRUE

\* doc = ...document(user_id).get()  # awaitは不要（同期メソッド）
\* ...document(user_id).set(...)     # awaitは不要（同期メソッド）
GetSetSuspends == FALSE

LoopClusters == {LabelCluster(0, <<"#a">>, <<5>>), LabelCluster(1, <<"#b">>, <<8>>)}

\* the repository calls of the other requests
MergeCalls ==
    [op : {"add_pattern"}, item : GrowPatterns]
    \cup [op : {"add_label"}, item : GrowLabels]
    \cup [op : {"update_cluster"}, item : LoopClusters]

MergeCallLists ==
    {<<a>> : a \in MergeCalls} \cup {<<a, b>> : a, b \in MergeCalls}

\* one repository call of a merging request, no store fault
MergeCall(st, hist, user_id, call) ==
    IF call.op = "add_pattern"
    THEN add_pattern(st, hist, user_id, call.item, "none")
    ELSE IF call.op = "add_label"
    THEN [history |-> hist] @@ add_label(st, user_id, call.item, "none")
    ELSE [history |-> hist] @@ update_cluster(st, user_id, call.item, "none")

\* the document holds the item that the call merges
HoldsItem(doc, call) ==
    IF call.op = "add_pattern"
    THEN call.item.pattern \in StoredPatternNames(doc)
    ELSE IF call.op = "add_label"
    THEN call.item.text \in StoredLabelTexts(doc)
    ELSE call.item.cluster_id \in StoredClusterIds(doc)

InitLoop ==
    /\ store = [u \in Users |-> NoDoc]
    /\ patternHistory = [u \in Users |-> 0]
    /\ httpIn = EngineIdle
    /\ httpOut = EngineIdle
    /\ chatHistories = NoSessions
    /\ cache = [u \in Users |-> NoEntry]
    /\ lastOp = NoOp
    /\ merged = [u \in Users |-> [t \in LabelTexts |-> NoMerge]]
    /\ calls = [u \in Users |-> NoCall]
    /\ \E pending \in MergeCallLists :
           tasks = [get_profile |-> "start", created |-> FALSE,
                    pending |-> pending, written |-> <<>>,
                    running |-> "none"]
    /\ engineIn = EngineIdle
    /\ engineOut = EngineIdle
    /\ analyzerIn = EngineIdle
    /\ analyzerOut = EngineIdle
    /\ clusterIn = <<>>
    /\ clusterOut = EngineIdle

\* get_profile up to its read: doc = ...document(user_id).get(); a stored
\* document is returned, an absent one leaves the call before its set()
LoopGetProfileRead ==
    /\ tasks.get_profile = "start"
    /\ tasks.running = "none"
    /\ tasks' = IF store[LoopUser].exists
                THEN [tasks EXCEPT !.get_profile = "done"]
                ELSE [tasks EXCEPT !.get_profile = "set",
                                   !.running = IF GetSetSuspends THEN "none"
                                               ELSE "get_profile"]
    /\ UNCHANGED <<store, patternHistory, cache, lastOp, merged, calls,
                   engineIn, engineOut, analyzerIn, analyzerOut,
                   clusterIn, clusterOut, httpIn, httpOut,
                   chatHistories>>

\* get_profile from its write: ...document(user_id).set(new_profile)
LoopGetProfileSet ==
    /\ tasks.get_profile = "set"
    /\ tasks.running \in {"none", "get_profile"}
    /\ store' = [store EXCEPT ![LoopUser] = UserProfile(<<>>, <<>>, <<>>)]
    /\ tasks' = [tasks EXCEPT !.get_profile = "done", !.created = TRUE,
                              !.running = "none"]
    /\ UNCHANGED <<patternHistory, cache, lastOp, merged, calls,
                   engineIn, engineOut, analyzerIn, analyzerOut,
                   clusterIn, clusterOut, httpIn, httpOut,
                   chatHistories>>

\* the next repository call of the merging requests, run when the loop is
\* free
LoopMerge ==
    /\ tasks.running = "none"
    /\ tasks.pending # <<>>
    /\ \E r \in {MergeCall(store, patternHistory, LoopUser,
                            Head(tasks.pending))} :
           /\ store' = r.store
           /\ patternHistory' = r.history
           /\ tasks' = [tasks EXCEPT
                           !.pending = Tail(@),
                           !.written = IF r.raised THEN @
                                       ELSE Append(@, Head(tasks.pending))]
    /\ UNCHANGED <<cache, lastOp, merged, calls,
                   engineIn, engineOut, analyzerIn, analyzerOut,
                   clusterIn, clusterOut, httpIn, httpOut,
                   chatHistories>>

NextLoop == LoopGetProfileRead \/ LoopGetProfileSet \/ LoopMerge

SpecLoop == InitLoop /\ [][NextLoop]_vars

----------------------------------------------------------------------------
(* api.py: the authentication middleware.  An Authorization header is a    *)
(* sequence of atoms, the atom " " being one space; NoHeader is the None   *)
(* that headers.get returns for a header that was not sent.                *)

MaxHeaderLen == 3

NoHeader == <<"None">>
HeaderAtoms == {"Bearer", "Basic", "good", "bad", " "}

\* str.split(" "): the pieces between single spaces, each a sequence of atoms
RECURSIVE split(_)
split(s) ==
    IF s = <<>>
    THEN << <<>> >>
    ELSE LET rest == split(Tail(s))
         IN  IF Head(s) = " "
             THEN << <<>> >> \o rest
             ELSE << <<Head(s)>> \o rest[1] >> \o Tail(rest)

\* str.startswith("Bearer ")
startswith_Bearer(s) == Len(s) >= 2 /\ s[1] = "Bearer" /\ s[2] = " "

\* firebase_admin.auth.verify_id_token: TRUE when it returns the decoded
\* token, FALSE when it raises
verify_id_token(token) == token = <<"good">>

Unauthorized == [raised |-> TRUE, status_code |-> 401]

verify_firebase_token_AnyBearer(request) ==
    LET authorization == request.authorization
    IN  IF authorization = NoHeader \/ authorization = <<>>
           \/ ~startswith_Bearer(authorization)
        THEN Unauthorized
        ELSE [raised |-> FALSE]

verify_firebase_token(request) ==
    LET authorization == request.authorization
    IN  IF authorization = NoHeader \/ authorization = <<>>
           \/ ~startswith_Bearer(authorization)
        THEN Unauthorized
        ELSE IF verify_id_token(split(authorization)[2])
             THEN [raised |-> FALSE]
             ELSE Unauthorized

\* call_next: the route of the request runs; OPTIONS is routed to
\* options_handler, any other request to an endpoint that answers `status`
call_next(request, status) ==
    [status |-> IF request.method = "OPTIONS" THEN 204 ELSE status,
     handled |-> TRUE]

authenticate_requests(request, status) ==
    IF request.method = "OPTIONS" \/ request.path = "/docs"
       \/ request.path = "/openapi.json"
    THEN call_next(request, status)
    ELSE LET verified == verify_firebase_token(request)
         IN  IF verified.raised
             THEN [status |-> verified.status_code, handled |-> FALSE]
             ELSE call_next(request, status)

----------------------------------------------------------------------------
(* SpecApi: the middleware applied to drawn requests *)

Methods == {"GET", "POST", "OPTIONS"}
Paths == {"/docs", "/openapi.json", "/health", "/api/v1/profiles/u1"}
Headers ==
    {NoHeader} \cup UNION {[1..n -> HeaderAtoms] : n \in 0..MaxHeaderLen}
EndpointStatuses == {200, 404, 500}

Requests == [method : Methods, path : Paths, authorization : Headers]

InitApi ==
    /\ store = [u \in Users |-> NoDoc]
    /\ patternHistory = [u \in Users |-> 0]
    /\ cache = [u \in Users |-> NoEntry]
    /\ lastOp = NoOp
    /\ merged = [u \in Users |-> [t \in LabelTexts |-> NoMerge]]
    /\ calls = [u \in Users |-> NoCall]
    /\ tasks = NoTasks
    /\ engineIn = EngineIdle
    /\ engineOut = EngineIdle
    /\ analyzerIn = EngineIdle
    /\ analyzerOut = EngineIdle
    /\ clusterIn = <<>>
    /\ clusterOut = EngineIdle
    /\ httpIn \in Requests
    /\ httpOut = EngineIdle
    /\ chatHistories = NoSessions

AuthenticateRequests ==
    /\ httpOut = EngineIdle
    /\ \E status \in EndpointStatuses :
           httpOut' = [kind |-> "done",
                       response |-> authenticate_requests(httpIn, status)]
    /\ UNCHANGED <<store, patternHistory, cache, lastOp, merged, calls,
                   engineIn, engineOut, analyzerIn, analyzerOut,
                   clusterIn, clusterOut, tasks, httpIn, chatHistories>>

NextApi == AuthenticateRequests

SpecApi == InitApi /\ [][NextApi]_vars

----------------------------------------------------------------------------
(* api.py: the chat session endpoints.  user_id is token["uid"] of the     *)
(* verified token.  A session document holds its user_id, its messages     *)
(* (each a role; the texts and timestamps are not modelled, so that        *)
(* ArrayUnion always appends) and raw_messages, the serialized history of  *)
(* the generator as a sequence of roles.  An endpoint returns the          *)
(* collection it leaves and its HTTP status.                               *)

MaxMessages == 2

ChatHistory(user_id, messages) ==
    [exists |-> TRUE, user_id |-> user_id, messages |-> messages,
     raw_messages |-> <<>>]

\* create_chat_session; session_id is the fresh id of document().id
create_chat_session(ch, session_id, initial_message, user_id) ==
    [chat |-> [ch EXCEPT ![session_id] = ChatHistory(user_id, initial_message)],
     status |-> 200]

\* add_message_internal: 404 for an absent session, 403 for a session of
\* another user, else the message is added to messages
add_message_internal(ch, session_id, message, user_id) ==
    IF ~ch[session_id].exists THEN [chat |-> ch, status |-> 404]
    ELSE IF ch[session_id].user_id # user_id THEN [chat |-> ch, status |-> 403]
    ELSE [chat |-> [ch EXCEPT ![session_id].messages = Append(@, message)],
          status |-> 200]

\* clear_chat_histories: the sessions found by user_id == uid are deleted
clear_chat_histories(ch, user_id) ==
    [chat |-> [s \in DOMAIN ch |->
                  IF ch[s].exists /\ ch[s].user_id = user_id
                  THEN NoDoc ELSE ch[s]],
     status |-> 200]

delete_chat_session(ch, session_id, user_id) ==
    IF ~ch[session_id].exists THEN [chat |-> ch, status |-> 404]
    ELSE IF ch[session_id].user_id # user_id THEN [chat |-> ch, status |-> 403]
    ELSE [chat |-> [ch EXCEPT ![session_id] = NoDoc], status |-> 200]

NoThread == "None"

GeneratorOutcomes == {"ok", "error"}

\* invoke_agent.  The stored history is loaded only from a session of the
\* requester.  When the generator answered and a thread_id was given, the
\* two messages and the serialized history are written with
\* doc_ref.update, which raises for an absent document (caught and
\* ignored).  When the generator raised, the error message is added with
\* add_message_internal, whose exceptions are caught too.
invoke_agent(ch, thread_id, user_id, gen) ==
    LET owned == /\ thread_id # NoThread
                 /\ ch[thread_id].exists
                 /\ ch[thread_id].user_id = user_id
        message_history == IF owned THEN ch[thread_id].raw_messages ELSE <<>>
        all_messages_json == message_history \o <<"user", "assistant">>
    IN IF gen = "error"
       THEN [chat |-> IF thread_id = NoThread THEN ch
                      ELSE add_message_internal(ch, thread_id, "system",
                                                user_id).chat,
             status |-> 500]
       ELSE IF thread_id = NoThread \/ ~ch[thread_id].exists
       THEN [chat |-> ch, status |-> 200]
       ELSE [chat |-> [ch EXCEPT
                          ![thread_id].messages = @ \o <<"user", "assistant">>,
                          ![thread_id].raw_messages = all_messages_json],
             status |-> 200]

----------------------------------------------------------------------------
(* SpecChat: requests of two authenticated users on two session ids *)

InitialMessages == {<<>>, <<"user">>}

\* the messages a session would hold after n more
Room(ch, session_id, n) ==
    ch[session_id].exists => Len(ch[session_id].messages) + n <= MaxMessages

ChatDone(op, user_id, session_id, r) ==
    /\ chatHistories' = r.chat
    /\ lastOp' = [op |-> op, user |-> user_id, session |-> session_id,
                  status |-> r.status]
    /\ UNCHANGED <<store, patternHistory, cache, merged, calls,
                   engineIn, engineOut, analyzerIn, analyzerOut,
                   clusterIn, clusterOut, tasks, httpIn, httpOut>>

CreateChatSession ==
    \E u \in Users, s \in SessionIds, initial \in InitialMessages :
        /\ ~chatHistories[s].exists
        /\ \E r \in {create_chat_session(chatHistories, s, initial, u)} :
               ChatDone("create_chat_session", u, s, r)

AddMessage ==
    \E u \in Users, s \in SessionIds :
        /\ Room(chatHistories, s, 1)
        /\ \E r \in {add_message_internal(chatHistories, s, "user", u)} :
               ChatDone("add_message", u, s, r)

ClearChatHistories ==
    \E u \in Users :
        \E r \in {clear_chat_histories(chatHistories, u)} :
            ChatDone("clear_chat_histories", u, NoThread, r)

DeleteChatSession ==
    \E u \in Users, s \in SessionIds :
        \E r \in {delete_chat_session(chatHistories, s, u)} :
            ChatDone("delete_chat_session", u, s, r)

InvokeAgent ==
    \E u \in Users, s \in SessionIds \cup {NoThread},
       gen \in GeneratorOutcomes :
        /\ s # NoThread => Room(chatHistories, s, 2)
        /\ \E r \in {invoke_agent(chatHistories, s, u, gen)} :
               ChatDone("invoke_agent", u, s, r)

NextChat ==
    \/ CreateChatSession
    \/ AddMessage
    \/ ClearChatHistories
    \/ DeleteChatSession
    \/ InvokeAgent

SpecChat == InitCommon /\ [][NextChat]_vars

----------------------------------------------------------------------------
(* Properties of the agent (Spec) *)

IsAnalysis(call) == call # NoCall /\ call.op = "analyze_reflection"

IsBlank(content) == \A i \in DOMAIN content : content[i] \in Whitespace

\* a step that is a call of analyze_reflection by user u
AnalysisStep(u) ==
    /\ lastOp' # NoOp
    /\ lastOp'.op = "analyze_reflection"
    /\ lastOp'.user = u
    /\ IsAnalysis(calls'[u])

\* the previous operation on u's profile was analyze_reflection with the
\* same non-blank content, and this step calls it again
RepeatedAnalysis(u) ==
    /\ AnalysisStep(u)
    /\ IsAnalysis(calls[u])
    /\ calls'[u].content = calls[u].content
    /\ ~IsBlank(calls[u].content)

CacheServesRepeat ==
    \A u \in Users :
        RepeatedAnalysis(u) =>
            /\ calls'[u].result = calls[u].result
            /\ calls'[u].gen_calls = 0
            /\ ~calls[u].hit => calls[u].gen_calls + calls'[u].gen_calls = 1

\* C1: when analyze_reflection is called for a user with a non-blank content
\* right after a call with the same content (no update_profile for that user
\* in between), the second call returns the result of the first and does not
\* invoke the generator, so the generator was invoked exactly once across a
\* first, uncached call and its repetition.
C1_RepeatedAnalysisIsCached == [][CacheServesRepeat]_vars

\* a repetition has been served from the cache with a result that has labels
C1_Witness ==
    \E u \in Users :
        /\ IsAnalysis(calls[u])
        /\ calls[u].hit
        /\ calls[u].result.labels # <<>>
        /\ ~calls[u].result.error_occurred

BlankIsRejected ==
    \A u \in Users :
        (AnalysisStep(u) /\ IsBlank(calls'[u].content)) =>
            /\ calls'[u].result.error_occurred
            /\ calls'[u].result.patterns = <<>>
            /\ calls'[u].result.labels = <<>>
            /\ calls'[u].gen_calls = 0
            /\ store' = store
            /\ patternHistory' = patternHistory
            /\ cache' = cache

\* C2: analyze_reflection with an empty or whitespace-only content returns
\* error_occurred with no patterns and no labels, does not invoke the
\* generator and leaves the profile store and the analysis cache unchanged.
C2_BlankContentShortCircuits == [][BlankIsRejected]_vars

\* a whitespace-only content was rejected while the user had a stored
\* profile and a cached analysis
C2_Witness ==
    \E u \in Users :
        /\ IsAnalysis(calls[u])
        /\ calls[u].content # <<>>
        /\ IsBlank(calls[u].content)
        /\ calls[u].result.error_occurred
        /\ store[u] # NoDoc
        /\ cache[u] # NoEntry

\* C8: every Pattern and DynamicLabel of a result of analyze_reflection, and
\* of the result of analyze_pattern it was built from, has a confidence in
\* [0, 1], whatever the generator returned.
C8_ConfidencesInRange ==
    \A u \in Users :
        IsAnalysis(calls[u]) =>
            /\ \A c \in ResultConfidences(calls[u].result) : ConfidenceValid(c)
            /\ \A c \in calls[u].engine_confidences : ConfidenceValid(c)

\* an analysis ran the engine and returned labels
C8_Witness ==
    \E u \in Users :
        /\ IsAnalysis(calls[u])
        /\ ~calls[u].hit
        /\ calls[u].engine_confidences # {}
        /\ calls[u].result.labels # <<>>

PatternPerLabel(call) ==
    /\ ~call.result.error_occurred
    /\ Len(call.result.patterns) = Len(call.engine_texts)
    /\ \A i \in DOMAIN call.result.patterns :
           /\ call.result.patterns[i].pattern = call.engine_texts[i]
           /\ call.result.patterns[i].category # ""
           /\ call.result.patterns[i].confidence > 0

\* C14: when label extraction yields at least one label with a non-empty
\* text, analyze_reflection returns error_occurred = false and one pattern
\* per such label, each with a non-empty name, a non-empty category and a
\* confidence greater than 0.
C14_OnePatternPerLabel ==
    \A u \in Users :
        (IsAnalysis(calls[u]) /\ calls[u].engine_texts # <<>>) =>
            PatternPerLabel(calls[u])

\* a step that is a call of update_profile for user u
UpdateProfileStep(u) ==
    IsOp(lastOp', "update_profile") /\ lastOp'.user = u

\* C12: every call of update_profile for a user, whether it returns normally
\* or a repository write raises, leaves no cache entry for that user.
C12_UpdateProfileInvalidatesCache ==
    [][\A u \in Users : UpdateProfileStep(u) => cache'[u] = NoEntry]_vars

----------------------------------------------------------------------------
(* Properties of concurrent analyses (SpecConcurrent) *)

AllTasksDone == \A t \in TaskIds : tasks[t].pc = "done"

\* every label some call merged
Contributions == UNION {tasks[t].contributed : t \in TaskIds}

\* the stored profile holds an entry for every label a call merged
ContributionsStored ==
    \A c \in Contributions :
        \E i \in DOMAIN StoredLabels(store[TaskUser]) :
            StoredLabels(store[TaskUser])[i].text = c.text

----------------------------------------------------------------------------
(* Properties of the repository (SpecRepo) *)


PatternNamesUnique ==
    \A u \in Users :
        LET ps == StoredPatterns(store[u])
        IN \A i, j \in DOMAIN ps : ps[i].pattern = ps[j].pattern => i = j

\* a committed add_pattern step: one pattern of that name afterwards, with
\* the merged confidence; replaced in place when the name was stored,
\* appended otherwise
AddPatternUpserts ==
    (lastOp'.op = "add_pattern" /\ lastOp'.committed) =>
        LET u == lastOp'.user
            p == lastOp'.arg
            old == StoredPatterns(store[u])
            new == StoredPatterns(store'[u])
            hits == {i \in DOMAIN new : new[i].pattern = p.pattern}
        IN /\ Cardinality(hits) = 1
           /\ \A i \in hits : new[i].confidence = p.confidence
           /\ IF \E i \in DOMAIN old : old[i].pattern = p.pattern
              THEN /\ Len(new) = Len(old)
                   /\ \A i \in DOMAIN old : old[i].pattern # p.pattern
                                               => new[i] = old[i]
              ELSE new = Append(old, PatternDict(p))

\* C3: merging a pattern is an upsert by name (one pattern of that name
\* afterwards, carrying the new confidence; appended when the name is new),
\* and no two stored patterns of a profile ever share a name
C3_PatternUpsertByName == []PatternNamesUnique /\ [][AddPatternUpserts]_vars

\* a stored pattern was replaced by a merge of the same name with another
\* confidence while a second pattern is stored
C3_Witness ==
    /\ lastOp.op = "add_pattern" /\ lastOp.committed /\ lastOp.existed
    /\ lastOp.arg.confidence = 9
    /\ Len(StoredPatterns(store[lastOp.user])) = 2

\* C4: after n merges of a label text into a profile that lacked it, the
\* profile holds exactly one label of that text and its occurrence_count is n
C4_OccurrenceCountIsMerges ==
    \A u \in Users, t \in LabelTexts :
        merged[u][t].n >= 1 =>
            LET ls == StoredLabels(store[u])
                hits == {i \in DOMAIN ls : ls[i].text = t}
            IN /\ Cardinality(hits) = 1
               /\ \A i \in hits : ls[i].occurrence_count = merged[u][t].n

\* C5: the stored confidence of a label is the largest confidence merged
\* for its text
C5_ConfidenceIsMax ==
    \A u \in Users, t \in LabelTexts :
        merged[u][t].n >= 1 =>
            LET ls == StoredLabels(store[u])
            IN \A i \in DOMAIN ls :
                   ls[i].text = t => ls[i].confidence = merged[u][t].maxc

----------------------------------------------------------------------------
(* Properties of the clusterer (SpecCluster) *)

InputTexts == {clusterIn[i].text : i \in DOMAIN clusterIn}

\* C6: fewer than 2 vectorized labels give an empty cluster list
C6_FewerThanTwoGiveNoClusters ==
    (clusterOut # EngineIdle /\ Len(clusterIn) < 2)
        => clusterOut.clusters = <<>>

\* the clusterer ran on exactly one label
C6_Witness ==
    clusterOut # EngineIdle /\ Len(clusterIn) = 1 /\ clusterOut.clusters = <<>>

----------------------------------------------------------------------------
(* Properties of the engine (SpecEngine) *)

Clamp(c) == IF c < 0 THEN 0 ELSE IF c > 10 THEN 10 ELSE c

\* the labels of a response with every confidence clamped into [0,1], then
\* filtered and truncated as _extract_labels does
ClampedLabels(gen, config) ==
    LET clamped == [i \in DOMAIN gen.labels |->
                       DynamicLabel(gen.labels[i].text,
                                    Clamp(gen.labels[i].confidence),
                                    gen.labels[i].occurrence_count)]
        keep(label) == label.confidence >= config.min_confidence
        filtered == SelectSeq(clamped, keep)
    IN SubSeq(filtered, 1,
              IF Len(filtered) < config.max_labels_per_pattern
              THEN Len(filtered) ELSE config.max_labels_per_pattern)

\* C9: an item with an out-of-range confidence is kept with its confidence
\* clamped to 0 or 1, and the other items of the response are unaffected
C9_OutOfRangeIsClamped ==
    (engineOut # EngineIdle /\ engineIn.gen.kind = "data") =>
        engineOut.result.labels = ClampedLabels(engineIn.gen, engineIn.config)

\* the call of the generator failed, or its response does not parse into
\* labels: an item fails the validation of LabelResponse or of DynamicLabel
ParseFails(gen) ==
    \/ gen.kind = "error"
    \/ \E i \in DOMAIN gen.labels :
           \/ ~ConfidenceValid(gen.labels[i].confidence)
           \/ gen.labels[i].occurrence_count < 1

\* the positions of the response whose confidence reaches min_confidence
Confident(gen, config) ==
    {i \in DOMAIN gen.labels :
        gen.labels[i].confidence >= config.min_confidence}

\* the first max_labels_per_pattern of these positions
Kept(gen, config) ==
    {i \in Confident(gen, config) :
        Cardinality({j \in Confident(gen, config) : j < i})
            < config.max_labels_per_pattern}

\* `labels` is the items of the response at the positions `kept`, in the
\* order of the response
IsSelection(labels, gen, kept) ==
    /\ Len(labels) = Cardinality(kept)
    /\ \A i \in kept :
           LET k == Cardinality({j \in kept : j < i}) + 1
           IN /\ labels[k].text = gen.labels[i].text
              /\ labels[k].confidence = gen.labels[i].confidence
              /\ labels[k].occurrence_count = gen.labels[i].occurrence_count

\* C25: label extraction returns exactly the labels of the response whose
\* confidence is at least config.min_confidence, in their original order,
\* cut to the first config.max_labels_per_pattern of them; when the call of
\* the generator or the parsing of its response fails it returns no label.
C25_ExtractionFiltersAndTruncates ==
    (engineOut # EngineIdle /\ engineIn.fault = "none") =>
        IF ParseFails(engineIn.gen)
        THEN engineOut.result.labels = <<>>
        ELSE IsSelection(engineOut.result.labels, engineIn.gen,
                         Kept(engineIn.gen, engineIn.config))

\* two labels passed the filter and the configuration kept the first
C25_Witness ==
    /\ engineOut # EngineIdle
    /\ engineIn.fault = "none"
    /\ ~ParseFails(engineIn.gen)
    /\ Cardinality(Confident(engineIn.gen, engineIn.config)) = 2
    /\ engineIn.gen.labels[1].text # engineIn.gen.labels[2].text
    /\ Len(engineOut.result.labels) = 1
    /\ engineOut.result.labels[1].text = engineIn.gen.labels[1].text

----------------------------------------------------------------------------
(* Properties of the pattern analyzer (SpecAnalyzer) *)

HasFallbackPattern(result) ==
    \E i \in DOMAIN result.patterns :
        result.patterns[i].detection_method = "fallback"

SuppliedPatterns(content, gen) ==
    LET response == _full_analysis(gen)
    IN IF response # NoResponse /\ response.patterns # <<>>
       THEN response.patterns
       ELSE IF _heuristic_analysis(content) # <<>>
       THEN _heuristic_analysis(content)
       ELSE _minimum_patterns

\* C26: analyze never raises, and whenever the generation, the heuristic
\* keyword pass or the static fallback supplied the patterns, the result it
\* returns has error_occurred = false.
C26_ErrorOnlyWhenFallbackRaised ==
    (/\ analyzerOut # EngineIdle
     /\ SuppliedPatterns(analyzerIn.content, analyzerIn.gen) # <<>>) =>
        /\ ~Raised(analyzerOut.result)
        /\ ~analyzerOut.result.error_occurred

----------------------------------------------------------------------------
(* Properties of the profile operations (SpecProfile) *)

\* a step that is a call of update_preferred_role
RoleStepChecks ==
    IsOp(lastOp', "update_preferred_role") /\ lastOp' # lastOp =>
        IF lastOp'.role \in ValidRoles
        THEN ~lastOp'.raised
             /\ StoredRole(store'[lastOp'.user]) = lastOp'.role
        ELSE lastOp'.raised
             /\ StoredRole(store'[lastOp'.user])
                    = StoredRole(store[lastOp'.user])

\* the profile a successful get_profile returned shows the stored role
GetShowsRole ==
    (IsOp(lastOp, "get_profile") /\ lastOp.profile # NoProfile
        /\ StoredRole(store[lastOp.user]) # NoRole) =>
        /\ "preferred_role" \in DOMAIN lastOp.profile
        /\ lastOp.profile.preferred_role = StoredRole(store[lastOp.user])

\* C11: update_preferred_role with a role outside the valid set is rejected
\* and leaves the stored preferred_role unchanged; with a valid role it
\* succeeds and a subsequent get_profile shows that role.
C11_PreferredRoleValidated == [][RoleStepChecks]_vars /\ []GetShowsRole

\* a get_profile step on user u whose document was absent / present
GetProfileStep(u) ==
    IsOp(lastOp', "get_profile") /\ lastOp'.user = u /\ lastOp' # lastOp

\* an instruction list that holds an instruction for every role
SeededForEveryRole(instructions) ==
    \A role \in ValidRoles :
        \E i \in DOMAIN instructions : instructions[i].role = role

GetOrCreate(seeded(_)) ==
    \A u \in Users :
        GetProfileStep(u) =>
            /\ \A v \in Users \ {u} : store'[v] = store[v]
            /\ store[u].exists => store' = store
            /\ (~store[u].exists /\ lastOp'.fault = "none") =>
                   /\ store'[u].exists
                   /\ seeded(store'[u].base_instructions)
                   /\ store'[u].patterns = <<>>
                   /\ store'[u].labels = <<>>
                   /\ store'[u].clusters = <<>>
                   /\ lastOp'.profile = store'[u]
            /\ (~store[u].exists /\ lastOp'.fault # "none") =>
                   /\ store' = store
                   /\ lastOp'.profile = NoProfile

IsEmptySeq(instructions) == instructions = <<>>

\* C18 as stated: get_profile for a user without a stored profile stores one
\* profile document seeded with the default instructions of each role and
\* with empty pattern, label and cluster lists, and returns it; for a user
\* with a profile it creates nothing.
C18_GetProfileSeedsDefaults == [][GetOrCreate(SeededForEveryRole)]_vars

\* C18 amended: the created document has an empty base-instruction list
\* (and empty pattern, label and cluster lists) and is returned; when the
\* store read or write fails nothing is stored and None is returned; for a
\* user with a profile nothing is created.
C18_GetProfileCreatesEmpty == [][GetOrCreate(IsEmptySeq)]_vars

\* get_profile has just created the document of a user
C18_Witness ==
    /\ IsOp(lastOp, "get_profile")
    /\ lastOp.fault = "none"
    /\ lastOp.profile # NoProfile
    /\ lastOp.profile = store[lastOp.user]
    /\ store[lastOp.user].base_instructions = <<>>
    /\ \E v \in Users \ {lastOp.user} :
           store[v].exists /\ store[v].patterns # <<>>

----------------------------------------------------------------------------
(* Properties of the authentication middleware (SpecApi) *)

Answered == httpOut # EngineIdle

Exempt(request) ==
    request.method = "OPTIONS" \/ request.path \in {"/docs", "/openapi.json"}

\* the header is missing, is not a Bearer header, or the token it carries
\* (the text between the first and the second space) fails verification
BadAuthorization(request) ==
    LET h == request.authorization
    IN  \/ h = NoHeader
        \/ ~(Len(h) >= 2 /\ SubSeq(h, 1, 2) = <<"Bearer", " ">>)
        \/ \E n \in 2..Len(h) :
               /\ \A i \in 3..n : h[i] # " "
               /\ n < Len(h) => h[n + 1] = " "
               /\ SubSeq(h, 3, n) # <<"good">>

\* C15: a request whose Authorization header is missing, is not a Bearer
\* token or carries a token that fails verification is answered with 401
\* and its endpoint handler is not executed; only OPTIONS requests and the
\* paths /docs and /openapi.json are exempt and reach their handler.
C15_UnauthenticatedIsRejected ==
    Answered =>
        /\ (BadAuthorization(httpIn) /\ ~Exempt(httpIn)) =>
               /\ httpOut.response.status = 401
               /\ ~httpOut.response.handled
        /\ Exempt(httpIn) => httpOut.response.handled

\* a request with a Bearer header whose token fails verification was
\* answered on a path that is not exempt
C15_Witness ==
    /\ Answered
    /\ ~Exempt(httpIn)
    /\ httpIn.authorization = <<"Bearer", " ", "bad">>
    /\ httpOut.response.status = 401

----------------------------------------------------------------------------
(* Properties of the merge (SpecMerge) *)

IsMerge(op) == IsOp(op, "_update_profile_with_analysis")

\* the step applies, without a store fault, the analysis result that the
\* previous call applied to the same user without a store fault
SecondApplication ==
    /\ IsMerge(lastOp) /\ IsMerge(lastOp')
    /\ lastOp'.turn # lastOp.turn
    /\ lastOp'.user = lastOp.user
    /\ lastOp'.analysis = lastOp.analysis
    /\ lastOp.fault_free /\ lastOp'.fault_free

----------------------------------------------------------------------------
(* Properties of error handling (Spec) *)

\* a PatternAnalysisResult, as opposed to an exception
IsResult(result) == ~Raised(result) /\ result.error_occurred \in BOOLEAN

\* the engine call of `call` returned a result, and the result of a call
\* whose top-level handler caught `message` reports it
EngineReturned(call) ==
    call.engine.called =>
        /\ ~call.engine.raised
        /\ call.engine_fault = "raise" =>
               /\ call.engine.error_occurred
               /\ call.engine.patterns = 0
               /\ call.engine.error_message = "unexpected"

ReflectionReturned(call) ==
    /\ IsResult(call.result)
    /\ call.content = NotAString =>
           /\ call.result.error_occurred
           /\ call.result.patterns = <<>>
           /\ call.result.error_message = "no attribute strip"

\* C17: analyze_pattern and analyze_reflection return a result whatever
\* the content, the generator outcome and the store faults; a result
\* produced by a top-level handler has error_occurred true, no patterns
\* and the message of the exception.
C17_NeverRaises ==
    \A u \in Users :
        IsAnalysis(calls[u]) =>
            EngineReturned(calls[u]) /\ ReflectionReturned(calls[u])

\* the top-level handler of analyze_pattern has produced the result of an
\* analyze_reflection
C17_Witness ==
    \E u \in Users :
        /\ IsAnalysis(calls[u])
        /\ calls[u].engine.called
        /\ calls[u].engine_fault = "raise"
        /\ calls[u].result.error_occurred
        /\ calls[u].result.error_message = "unexpected"

\* a step that is a call of analyze_reflection whose engine call reported
\* an error
EngineErrorStep(u) ==
    /\ AnalysisStep(u)
    /\ calls'[u].engine.called
    /\ ~calls'[u].engine.raised
    /\ calls'[u].engine.error_occurred

\* C19: when the engine reports error_occurred, analyze_reflection returns
\* the engine's result unchanged, writes nothing to the profile store and
\* leaves the user's cache entry as it was.
C19_EngineErrorIsPropagated ==
    [][\A u \in Users :
          EngineErrorStep(u) =>
              /\ calls'[u].result = calls'[u].engine.error_result
              /\ store' = store
              /\ patternHistory' = patternHistory
              /\ cache' = cache]_vars

\* an engine error has been returned to a user who has a profile and a
\* cache entry
C19_Witness ==
    \E u \in Users :
        /\ IsAnalysis(calls[u])
        /\ calls[u].engine.called
        /\ calls[u].engine.error_occurred
        /\ calls[u].result = calls[u].engine.error_result
        /\ cache[u].present
        /\ StoredLabels(store[u]) # <<>>

\* the call ran the engine and did not fully succeed: the engine reported
\* an error or a repository call of the merge failed
NotFullSuccess(call) ==
    /\ call.engine.called
    /\ \/ call.merge_failed
       \/ ~call.engine.raised /\ call.engine.error_occurred

\* C20: analyze_reflection stores the cache entry only on full success:
\* after a call in which the engine reported an error or the merge of a
\* pattern, label or cluster failed, the cache holds no entry for the
\* content of the call.
C20_CacheOnlyOnFullSuccess ==
    \A u \in Users :
        (IsAnalysis(calls[u]) /\ NotFullSuccess(calls[u])) =>
            ~CacheHit(cache[u], _generate_content_hash(calls[u].content))

----------------------------------------------------------------------------
(* Properties of the cache (SpecHit) *)

\* a step that is a call of analyze_reflection for u served from the cache
HitStep(u) ==
    /\ IsOp(lastOp', "analyze_reflection")
    /\ lastOp'.user = u
    /\ IsAnalysis(calls'[u])
    /\ calls'[u].hit

\* C28: a cache hit in analyze_reflection changes nothing: the call writes
\* nothing to the profile store (the documents of all users, with their
\* patterns, labels, occurrence counts and clusters, are unchanged) and
\* leaves the cache entry of that user and of every other user unchanged.
C28_CacheHitChangesNothing ==
    [][\A u \in Users :
          HitStep(u) => /\ store' = store
                        /\ patternHistory' = patternHistory
                        /\ cache' = cache]_vars

\* u1 was served from the cache while it and another user have a stored
\* profile with labels and a cache entry
C28_Witness ==
    /\ IsAnalysis(calls["u1"])
    /\ calls["u1"].hit
    /\ lastOp = [op |-> "analyze_reflection", user |-> "u1"]
    /\ StoredLabels(store["u1"]) # <<>>
    /\ StoredLabels(store["u2"]) # <<>>
    /\ cache["u1"] # NoEntry
    /\ cache["u2"] # NoEntry

----------------------------------------------------------------------------
(* Properties of the batch merge (SpecBatch) *)

\* a step that is a call of _update_profile_with_analysis
BatchStep ==
    /\ IsOp(lastOp', "_update_profile_with_analysis")
    /\ IsOp(lastOp, "_update_profile_with_analysis") =>
           lastOp'.turn # lastOp.turn

\* every item of the call whose own repository call did not fail is stored
OthersStored(call, doc) ==
    /\ \A i \in DOMAIN call.analysis.patterns :
           call.faults.patterns[i] = "none" =>
               call.analysis.patterns[i].pattern \in StoredPatternNames(doc)
    /\ \A i \in DOMAIN call.analysis.labels :
           (call.faults.labels[i] = "none"
               /\ call.analysis.labels[i].text # "") =>
               \E j \in DOMAIN StoredLabels(doc) :
                   doc.labels[j] = _to_dict(call.analysis.labels[i])
    /\ \A i \in DOMAIN call.analysis.clusters :
           (call.faults.clusters[i] = "none"
               /\ call.analysis.clusters[i].labels # <<>>) =>
               \E j \in DOMAIN StoredClusters(doc) :
                   doc.clusters[j] = call.analysis.clusters[i]

\* C21: in _update_profile_with_analysis the failure of one item's
\* repository call does not abort the batch: every other pattern, label and
\* cluster of the analysis result is stored, and the call returns normally.
C21_FailureDoesNotAbortBatch ==
    [][BatchStep =>
          /\ ~lastOp'.raised
          /\ OthersStored(lastOp', store'[lastOp'.user])]_vars

\* a call whose first label failed has stored its patterns, its second
\* label and its clusters
C21_Witness ==
    /\ IsOp(lastOp, "_update_profile_with_analysis")
    /\ Len(lastOp.analysis.labels) = 2
    /\ lastOp.faults.labels[1] = "txn"
    /\ Len(lastOp.analysis.patterns) = 2
    /\ lastOp.analysis.clusters # <<>>
    /\ StoredLabelTexts(store[lastOp.user]) = {"#b"}
    /\ Len(StoredClusters(store[lastOp.user])) = 2


----------------------------------------------------------------------------
(* Properties of the clusters of an analysis (Spec) *)

\* the call ran the engine, returned without error and no repository call
\* of its merge failed
Succeeded(call) ==
    /\ IsAnalysis(call)
    /\ ~call.hit
    /\ call.engine.called
    /\ ~call.result.error_occurred
    /\ ~call.merge_failed

\* C22: after analyze_reflection succeeds for a content on which the engine
\* produced clusters, every produced cluster with labels is among the
\* clusters of the returned result and is stored in the user's profile
\* under its cluster_id.
C22_ClustersReturnedAndStored ==
    \A u \in Users :
        Succeeded(calls[u]) =>
            \A c \in calls[u].engine_clusters :
                /\ \E i \in DOMAIN calls[u].result.clusters :
                       calls[u].result.clusters[i] = c
                /\ \E j \in DOMAIN StoredClusters(store[u]) :
                       store[u].clusters[j] = c

----------------------------------------------------------------------------
(* Properties of the repository mutators (SpecGrow) *)

KeysKept(u) ==
    /\ StoredPatternNames(store[u]) \subseteq StoredPatternNames(store'[u])
    /\ StoredLabelTexts(store[u]) \subseteq StoredLabelTexts(store'[u])
    /\ StoredClusterIds(store[u]) \subseteq StoredClusterIds(store'[u])
    /\ StoredCategoryNames(store[u]) \subseteq StoredCategoryNames(store'[u])

\* C23: under any sequence of add_pattern, add_label, update_cluster and
\* add_category calls on one profile the stored pattern names, label texts,
\* cluster ids and category names only grow.
C23_StoredKeysOnlyGrow == [][\A u \in Users : KeysKept(u)]_vars

\* a profile holding two keys of each kind has had a stored cluster replaced
C23_Witness ==
    /\ IsOp(lastOp, "update_cluster")
    /\ lastOp.existed /\ ~lastOp.raised
    /\ StoredPatternNames(store[lastOp.user]) = PatternNames
    /\ StoredLabelTexts(store[lastOp.user]) = LabelTexts
    /\ StoredClusterIds(store[lastOp.user]) = {0, 1}
    /\ StoredCategoryNames(store[lastOp.user]) = {"K", "L"}

----------------------------------------------------------------------------
(* Properties of the stored patterns (SpecBatch) *)

\* C24: in every reachable state no stored profile contains a pattern with
\* an empty name, whichever path performed the merge.
C24_NoEmptyPatternNameStored ==
    \A u \in Users : "" \notin StoredPatternNames(store[u])

\* the stored pattern of the same name has the category and the confidence
\* of the analysed pattern
StoredAsAnalysed(pattern, doc) ==
    \E j \in DOMAIN StoredPatterns(doc) :
        /\ doc.patterns[j].pattern = pattern.pattern
        /\ doc.patterns[j].category = pattern.category
        /\ doc.patterns[j].confidence = pattern.confidence

\* C27: the pattern that _update_profile_with_analysis stores for a pattern
\* of the analysis result carries the name, category and confidence of that
\* pattern; no default value replaces a field that is present and valid.
C27_StoredPatternKeepsFields ==
    [][BatchStep =>
          \A i \in DOMAIN lastOp'.analysis.patterns :
              lastOp'.faults.patterns[i] = "none" =>
                  StoredAsAnalysed(lastOp'.analysis.patterns[i],
                                   store'[lastOp'.user])]_vars

----------------------------------------------------------------------------
(* Properties of get_profile among merges (SpecLoop) *)

LoopComplete ==
    /\ tasks # NoTasks
    /\ tasks.get_profile = "done"
    /\ tasks.pending = <<>>

----------------------------------------------------------------------------
(* Properties of the chat session endpoints (SpecChat) *)

ChatOps ==
    {"create_chat_session", "add_message", "clear_chat_histories",
     "delete_chat_session", "invoke_agent"}

\* C30: no request modifies a chat session document whose user_id differs
\* from the authenticated requester: add_message, delete_chat_session and
\* invoke_agent with the thread_id of another user's session leave the
\* messages and raw_messages of that session unchanged.
C30_OtherUsersSessionUnchanged ==
    [][\A s \in SessionIds :
          (/\ lastOp'.op \in ChatOps
           /\ chatHistories[s].exists
           /\ chatHistories[s].user_id # lastOp'.user) =>
              /\ chatHistories'[s].exists
              /\ chatHistories'[s].messages = chatHistories[s].messages
              /\ chatHistories'[s].raw_messages
                     = chatHistories[s].raw_messages]_vars

====
